---- MODULE Spec2Model ----
(***************************************************************************)
(* Model of the query bridge of SqlPlanForDummies (src-tauri/src/db):      *)
(* the execute_query orchestrator with its plan-mode toggles, the          *)
(* select-star rewriter, the value decoder and the session locks.          *)
(*                                                                         *)
(* Text is modelled as a sequence of one-character strings, so that trim,  *)
(* to_lowercase, find and contains are computed and not assumed.           *)
(***************************************************************************)
EXTENDS Integers, Sequences, FiniteSets, TLC

(***************************************************************************)
(* Bounds of the model.                                                    *)
(***************************************************************************)
NumProcs == 2
MaxCalls == 3
MaxSessions == 2
MaxQueryInserts == 102
MaxPlanInserts == 52

Procs == 1..NumProcs

(***************************************************************************)
(* Text helpers (Rust str methods used by connection.rs).                  *)
(***************************************************************************)
WhiteSpace == {" ", "\t", "\n"}

UpperAlpha ==
    <<"A", "B", "C", "D", "E", "F", "G", "H", "I", "J", "K", "L", "M",
      "N", "O", "P", "Q", "R", "S", "T", "U", "V", "W", "X", "Y", "Z">>

LowerAlpha ==
    <<"a", "b", "c", "d", "e", "f", "g", "h", "i", "j", "k", "l", "m",
      "n", "o", "p", "q", "r", "s", "t", "u", "v", "w", "x", "y", "z">>

LowerChar(c) ==
    IF \E i \in 1..Len(UpperAlpha) : UpperAlpha[i] = c
    THEN LowerAlpha[CHOOSE i \in 1..Len(UpperAlpha) : UpperAlpha[i] = c]
    ELSE c

\* str::to_lowercase
ToLower(s) == [i \in 1..Len(s) |-> LowerChar(s[i])]

RECURSIVE TrimStart(_)
\* str::trim_start
TrimStart(s) ==
    IF s # <<>> /\ Head(s) \in WhiteSpace THEN TrimStart(Tail(s)) ELSE s

RECURSIVE TrimEnd(_)
\* str::trim_end
TrimEnd(s) ==
    IF s # <<>> /\ s[Len(s)] \in WhiteSpace
    THEN TrimEnd(SubSeq(s, 1, Len(s) - 1)) ELSE s

\* str::trim
Trim(s) == TrimEnd(TrimStart(s))

RECURSIVE TrimEndMatches(_, _)
\* str::trim_end_matches(char)
TrimEndMatches(s, c) ==
    IF s # <<>> /\ s[Len(s)] = c
    THEN TrimEndMatches(SubSeq(s, 1, Len(s) - 1), c) ELSE s

\* str::starts_with
StartsWith(s, pre) ==
    Len(pre) <= Len(s) /\ SubSeq(s, 1, Len(pre)) = pre

\* The 0-based offsets at which sub occurs in s.
Occurrences(s, sub) ==
    {i \in 0..(Len(s) - Len(sub)) : SubSeq(s, i + 1, i + Len(sub)) = sub}

\* str::contains
Contains(s, sub) == Occurrences(s, sub) # {}

\* str::find: the first 0-based offset, or -1 for None
Find(s, sub) ==
    IF Occurrences(s, sub) = {} THEN -1
    ELSE CHOOSE i \in Occurrences(s, sub) : \A j \in Occurrences(s, sub) : i <= j

\* &s[from..], from 0-based
SliceFrom(s, from) == SubSeq(s, from + 1, Len(s))

RECURSIVE SplitWhitespace(_)
\* str::split_whitespace: the maximal runs of non-whitespace, in order
SplitWhitespace(s) ==
    LET t == TrimStart(s) IN
    IF t = <<>> THEN <<>>
    ELSE LET ends == {i \in 1..Len(t) : t[i] \in WhiteSpace}
             n == IF ends = {} THEN Len(t) + 1
                  ELSE CHOOSE i \in ends : \A j \in ends : i <= j
         IN <<SubSeq(t, 1, n - 1)>> \o SplitWhitespace(SubSeq(t, n, Len(t)))

RECURSIVE Join(_, _)
\* [T].join(sep)
Join(words, sep) ==
    IF words = <<>> THEN <<>>
    ELSE IF Len(words) = 1 THEN words[1]
    ELSE words[1] \o sep \o Join(Tail(words), sep)

(***************************************************************************)
(* The wire client adapter as connection.rs consumes it: a cell carries    *)
(* its wire type, a row its column names, and try_get::<T> answers a type  *)
(* mismatch (Err), a typed null (Ok(None)) or a value (Ok(Some)).          *)
(***************************************************************************)
\* "Numeric" (decimal) stands for the wire types no typed accessor of
\* extract_row_values takes.
WireTypes ==
    {"String", "I32", "I64", "I16", "F32", "F64", "U8", "Bit", "DateTime",
     "Guid", "Numeric"}

\* The wire types each typed accessor accepts.
ProbeAccepts(probe) ==
    CASE probe = "str"      -> {"String"}
      [] probe = "i32"      -> {"I32"}
      [] probe = "i64"      -> {"I64"}
      [] probe = "i16"      -> {"I16"}
      [] probe = "f32"      -> {"F32"}
      [] probe = "f64"      -> {"F64"}
      [] probe = "u8"       -> {"U8"}
      [] probe = "bool"     -> {"Bit"}
      [] probe = "datetime" -> {"DateTime"}
      [] probe = "uuid"     -> {"Guid"}

Cell(ty, v) == [ty |-> ty, isnull |-> FALSE, v |-> v]
NullCell(ty) == [ty |-> ty, isnull |-> TRUE, v |-> 0]
MkRow(names, cells) == [columns |-> names, cells |-> cells]

\* row.try_get::<T, _>(i), i 0-based
TryGet(probe, row, i) ==
    IF i + 1 > Len(row.cells) THEN [tag |-> "Err", v |-> 0]
    ELSE LET c == row.cells[i + 1] IN
         IF c.ty \notin ProbeAccepts(probe) THEN [tag |-> "Err", v |-> 0]
         ELSE IF c.isnull THEN [tag |-> "None", v |-> 0]
         ELSE [tag |-> "Some", v |-> c.v]

\* Result<Option<T>>::ok().flatten()
None == [some |-> FALSE, v |-> 0]
Some(v) == [some |-> TRUE, v |-> v]
OkFlatten(r) == IF r.tag = "Some" THEN Some(r.v) ELSE None

(***************************************************************************)
(* rewrite_query_with_date_cast: the pure parts.                           *)
(***************************************************************************)
KwSelect == <<"s", "e", "l", "e", "c", "t">>
KwStar == <<"*">>
KwFrom == <<"f", "r", "o", "m">>
PatSelectStarFrom == <<"s", "e", "l", "e", "c", "t", " ", "*", " ", "f", "r", "o", "m">>
PatSelectStarFromTight == <<"s", "e", "l", "e", "c", "t", "*", "f", "r", "o", "m">>
TxtDatetime == <<"d", "a", "t", "e", "t", "i", "m", "e">>
TxtCastOpen == <<"C", "A", "S", "T", "(", "[">>
TxtCastAs == <<"]", " ", "A", "S", " ">>
TxtCastClose == <<")", " ", "A", "S", " ", "[">>
TxtBracketClose == <<"]">>
TxtBracketOpen == <<"[">>
TxtCommaSpace == <<",", " ">>
TxtSelectSp == <<"S", "E", "L", "E", "C", "T", " ">>
TxtSpFromSp == <<" ", "F", "R", "O", "M", " ">>

\* system_type_id of the date-only type
DateTypeId == 40

SqlTrimmed(sql) == Trim(sql)
SqlLower(sql) == ToLower(SqlTrimmed(sql))
Normalized(sql) == Join(SplitWhitespace(SqlLower(sql)), <<" ">>)

HasSelectStarFrom(sql) ==
    \/ StartsWith(Normalized(sql), PatSelectStarFrom)
    \/ StartsWith(Normalized(sql), PatSelectStarFromTight)
    \/ /\ Contains(SqlLower(sql), KwSelect)
       /\ Contains(SqlLower(sql), KwStar)
       /\ Contains(SqlLower(sql), KwFrom)

\* The token after the first "from", without trailing ';' (<<>> when none).
TableName(sql) ==
    LET pos == Find(SqlLower(sql), KwFrom) IN
    IF pos = -1 THEN <<>>
    ELSE LET after_from == Trim(SliceFrom(SqlTrimmed(sql), pos + 4))
             words == SplitWhitespace(after_from)
         IN TrimEndMatches(IF words = <<>> THEN <<>> ELSE words[1], ";")

\* Whether the rewriter goes to the catalog for this statement.
NeedsCatalog(sql) == HasSelectStarFrom(sql) /\ TableName(sql) # <<>>

\* Mutant: the alias rule is tried before the date-only rule.
ColumnEntryAliasFirst(row) ==
    LET col_name == OkFlatten(TryGet("str", row, 0))
        system_type_id == OkFlatten(TryGet("u8", row, 1))
        user_type_id == OkFlatten(TryGet("i32", row, 2))
        system_type_name == OkFlatten(TryGet("str", row, 4))
        is_alias == /\ system_type_id.some /\ user_type_id.some
                    /\ system_type_id.v # user_type_id.v
                    /\ system_type_name.some
        is_date == ~is_alias /\ system_type_id.some
                   /\ system_type_id.v = DateTypeId
        cast_type == IF is_alias THEN system_type_name.v
                     ELSE IF is_date THEN TxtDatetime ELSE <<>>
    IN IF ~col_name.some THEN <<>>
       ELSE IF cast_type # <<>>
       THEN <<[text |-> TxtCastOpen \o col_name.v \o TxtCastAs \o cast_type
                        \o TxtCastClose \o col_name.v \o TxtBracketClose,
               cast |-> TRUE]>>
       ELSE <<[text |-> TxtBracketOpen \o col_name.v \o TxtBracketClose,
               cast |-> FALSE]>>

\* One catalog row -> its entry of the column list (or nothing).
ColumnEntry(row) ==
    LET col_name == OkFlatten(TryGet("str", row, 0))
        system_type_id == OkFlatten(TryGet("u8", row, 1))
        user_type_id == OkFlatten(TryGet("i32", row, 2))
        system_type_name == OkFlatten(TryGet("str", row, 4))
        is_date == system_type_id.some /\ system_type_id.v = DateTypeId
        is_alias == /\ ~is_date
                    /\ system_type_id.some /\ user_type_id.some
                    /\ system_type_id.v # user_type_id.v
                    /\ system_type_name.some
        needs_cast == is_date \/ is_alias
        cast_type == IF is_date THEN TxtDatetime
                     ELSE IF is_alias THEN system_type_name.v ELSE <<>>
    IN IF ~col_name.some THEN <<>>
       ELSE IF needs_cast /\ cast_type # <<>>
       THEN <<[text |-> TxtCastOpen \o col_name.v \o TxtCastAs \o cast_type
                        \o TxtCastClose \o col_name.v \o TxtBracketClose,
               cast |-> TRUE]>>
       ELSE <<[text |-> TxtBracketOpen \o col_name.v \o TxtBracketClose,
               cast |-> FALSE]>>

RECURSIVE FlattenSets(_)
\* The rows of all result sets, in server order.
FlattenSets(result_sets) ==
    IF result_sets = <<>> THEN <<>>
    ELSE Head(result_sets) \o FlattenSets(Tail(result_sets))

RECURSIVE ColumnEntries(_)
ColumnEntries(rows) ==
    IF rows = <<>> THEN <<>>
    ELSE ColumnEntry(Head(rows)) \o ColumnEntries(Tail(rows))

\* Mutant: the statement is rebuilt whenever the catalog was read, whether
\* or not a column needs a cast.
RebuildQueryAlways(sql, result_sets) ==
    LET entries == ColumnEntries(FlattenSets(result_sets))
        from_pos == Find(SqlLower(sql), KwFrom)
        after_from == TrimStart(SliceFrom(SqlTrimmed(sql), from_pos + 4))
    IN TxtSelectSp
       \o Join([i \in 1..Len(entries) |-> entries[i].text], TxtCommaSpace)
       \o TxtSpFromSp \o TableName(sql)
       \o SliceFrom(after_from, Len(TableName(sql)))

\* Mutant: the rebuilt statement ends at the table name.
RebuildQueryNoRest(sql, result_sets) ==
    LET entries == ColumnEntries(FlattenSets(result_sets))
    IN IF (\E i \in 1..Len(entries) : entries[i].cast)
          /\ Find(SqlLower(sql), KwFrom) # -1
       THEN TxtSelectSp
            \o Join([i \in 1..Len(entries) |-> entries[i].text], TxtCommaSpace)
            \o TxtSpFromSp \o TableName(sql)
       ELSE sql

\* The statement rebuilt from the catalog rows, or sql itself.
RebuildQuery(sql, result_sets) ==
    LET entries == ColumnEntries(FlattenSets(result_sets))
        has_type_casting == \E i \in 1..Len(entries) : entries[i].cast
        column_list == Join([i \in 1..Len(entries) |-> entries[i].text],
                            TxtCommaSpace)
        from_pos == Find(SqlLower(sql), KwFrom)
        table_name == TableName(sql)
        after_from == TrimStart(SliceFrom(SqlTrimmed(sql), from_pos + 4))
        found == Find(after_from, table_name)
        table_end_pos == IF found = -1 THEN 0 ELSE found + Len(table_name)
        rest_of_query == SliceFrom(after_from, table_end_pos)
    IN IF has_type_casting /\ entries # <<>> /\ from_pos # -1
       THEN TxtSelectSp \o column_list \o TxtSpFromSp \o table_name
            \o rest_of_query
       ELSE sql

(***************************************************************************)
(* extract_row_values: the value decoder.                                  *)
(***************************************************************************)
TxtUnsupportedOpen ==
    <<"[", "U", "n", "s", "u", "p", "p", "o", "r", "t", "e", "d", " ",
      "t", "y", "p", "e", ":", " ">>

\* Mutant: the 64-bit probe before the 32-bit one, text last.
ProbeOrderShuffled ==
    <<"i64", "i32", "i16", "f32", "f64", "u8", "bool", "datetime", "uuid",
      "str">>

\* The fixed order in which the typed accessors are tried.
ProbeOrder ==
    <<"str", "i32", "i64", "i16", "f32", "f64", "u8", "bool", "datetime",
      "uuid">>

JNull == [k |-> "Null", v |-> <<>>]
JString(v) == [k |-> "String", v |-> v]
JNumber(v) == [k |-> "Number", v |-> <<v>>]
JBool(v) == [k |-> "Bool", v |-> <<v>>]

\* NaiveDateTime::to_string: "<date> <time>"
DateTimeToString(v) == v.date \o <<" ">> \o v.time

\* Uuid::to_string: the hyphenated groups
UuidToString(v) == Join(v, <<"-">>)

\* The portable value a successful probe yields.
Project(probe, v) ==
    CASE probe = "str"      -> JString(v)
      [] probe = "bool"     -> JBool(v)
      [] probe = "datetime" -> JString(DateTimeToString(v))
      [] probe = "uuid"     -> JString(UuidToString(v))
      [] OTHER              -> JNumber(v)

RECURSIVE ProbeFrom(_, _, _)
\* The nested match of extract_row_values from the k-th probe on.
ProbeFrom(row, i, k) ==
    IF k > Len(ProbeOrder)
    THEN JString(TxtUnsupportedOpen \o row.columns[i + 1] \o TxtBracketClose)
    ELSE LET r == TryGet(ProbeOrder[k], row, i) IN
         IF r.tag = "Some" THEN Project(ProbeOrder[k], r.v)
         ELSE IF r.tag = "None" THEN JNull
         ELSE ProbeFrom(row, i, k + 1)

extract_row_values(row) ==
    [i \in 1..Len(row.columns) |-> ProbeFrom(row, i - 1, 1)]

(***************************************************************************)
(* execute_query: what each plan mode makes of the result sets.            *)
(***************************************************************************)
PlanMarker == <<"S", "h", "o", "w", "P", "l", "a", "n", "X", "M", "L">>

MsgNote ==
    <<"Note: Alias types and date columns automatically cast to their base types for compatibility.">>
MsgEstimated == <<"Estimated execution plan generated.">>
MsgActual(n) ==
    <<"Query executed. ", n, " row(s) returned with actual execution plan.">>
MsgNone(n) == <<"Query executed. ", n, " row(s) returned.">>
\* format!("Execution time: {:.2}ms"), the elapsed time in 1/100 ms
MsgTime(c) == <<"Execution time: ", c \div 100, ".", (c % 100) \div 10, c % 10, "ms">>

\* The first cell of a row as text, if it is a non-null string.
FirstText(row) == OkFlatten(TryGet("str", row, 0))

\* Estimated: the loop over every row of every result set.
EstimatedPlan(result_sets) ==
    LET rows == FlattenSets(result_sets)
        hits == {i \in 1..Len(rows) : FirstText(rows[i]).some}
    IN IF hits = {} THEN None
       ELSE FirstText(rows[CHOOSE i \in hits : \A j \in hits : j <= i])

RECURSIVE ActualFoldNoSkip(_, _, _)
\* Mutant: the rows of a plan result set are counted too (no `continue`).
ActualFoldNoSkip(result_sets, plan_xml, rows_affected) ==
    IF result_sets = <<>>
    THEN [plan_xml |-> plan_xml, rows_affected |-> rows_affected]
    ELSE LET result_set == Head(result_sets)
             rest == Tail(result_sets)
         IN IF result_set = <<>>
            THEN ActualFoldNoSkip(rest, plan_xml, rows_affected)
            ELSE LET xml == FirstText(result_set[1]) IN
                 ActualFoldNoSkip(rest,
                                  IF xml.some /\ Contains(xml.v, PlanMarker)
                                  THEN xml ELSE plan_xml,
                                  rows_affected + Len(result_set))

RECURSIVE ActualFold(_, _, _)
\* Actual: the loop over the result sets, from plan_xml and rows_affected.
ActualFold(result_sets, plan_xml, rows_affected) ==
    IF result_sets = <<>>
    THEN [plan_xml |-> plan_xml, rows_affected |-> rows_affected]
    ELSE LET result_set == Head(result_sets)
             rest == Tail(result_sets)
         IN IF result_set = <<>>
            THEN ActualFold(rest, plan_xml, rows_affected)
            ELSE LET xml == FirstText(result_set[1]) IN
                 IF xml.some /\ Contains(xml.v, PlanMarker)
                 THEN ActualFold(rest, xml, rows_affected)
                 ELSE ActualFold(rest, plan_xml,
                                 rows_affected + Len(result_set))

RECURSIVE NoneFoldPerSet(_, _, _, _)
\* Mutant: rows_affected counts the result sets, not their rows.
NoneFoldPerSet(result_sets, columns, rows, rows_affected) ==
    IF result_sets = <<>>
    THEN [columns |-> columns, rows |-> rows, rows_affected |-> rows_affected]
    ELSE LET result_set == Head(result_sets)
             rest == Tail(result_sets)
         IN IF result_set = <<>>
            THEN NoneFoldPerSet(rest, columns, rows, rows_affected)
            ELSE NoneFoldPerSet(rest,
                                IF columns = <<>> THEN result_set[1].columns
                                ELSE columns,
                                rows \o [i \in 1..Len(result_set) |->
                                            extract_row_values(result_set[i])],
                                rows_affected + 1)

RECURSIVE NoneFold(_, _, _, _)
\* None: the loop over the result sets, from columns, rows, rows_affected.
NoneFold(result_sets, columns, rows, rows_affected) ==
    IF result_sets = <<>>
    THEN [columns |-> columns, rows |-> rows, rows_affected |-> rows_affected]
    ELSE LET result_set == Head(result_sets)
             rest == Tail(result_sets)
         IN IF result_set = <<>>
            THEN NoneFold(rest, columns, rows, rows_affected)
            ELSE NoneFold(rest,
                          IF columns = <<>> THEN result_set[1].columns
                          ELSE columns,
                          rows \o [i \in 1..Len(result_set) |->
                                      extract_row_values(result_set[i])],
                          rows_affected + Len(result_set))

(***************************************************************************)
(* The error texts of execute_query.  An adapter error is a sequence of    *)
(* words; contains("column type") looks for the two words in a row.        *)
(***************************************************************************)
ColumnTypeNeedle == <<"column", "type">>

RemediationText(plan_type) ==
    IF plan_type = "None"
    THEN <<"Query contains unsupported column types that are not supported by the database client. ... Original error: ">>
    ELSE <<"Query contains unsupported column types that cannot be used with execution plans. ... Original error: ">>

\* map_err of simple_query(sql)
SubmitError(plan_type, e) ==
    IF Contains(e, ColumnTypeNeedle) THEN RemediationText(plan_type) \o e
    ELSE <<"Query failed: ">> \o e

\* map_err of into_results() of the user statement
ResultsError(plan_type, e) ==
    IF Contains(e, ColumnTypeNeedle) THEN RemediationText(plan_type) \o e
    ELSE e

ToggleName(plan_type) ==
    IF plan_type = "Estimated" THEN "SHOWPLAN_XML" ELSE "STATISTICS XML"

\* map_err of the SET ... ON / OFF statements
EnableError(plan_type, e) ==
    <<"Failed to enable ", ToggleName(plan_type), ": ">> \o e
DisableError(plan_type, e) ==
    <<"Failed to disable ", ToggleName(plan_type), ": ">> \o e

(***************************************************************************)
(* The inputs and the server's answers the model draws from.               *)
(***************************************************************************)
SqlSelectStar ==
    <<"S", "E", "L", "E", "C", "T", " ", "*", " ", "F", "R", "O", "M", " ", "t">>
SqlSelectOne == <<"s", "e", "l", "e", "c", "t", " ", "1">>

SqlChoices == <<SqlSelectStar, SqlSelectOne>>
PlanTypes == {"None", "Estimated", "Actual"}

ColA == <<"a">>
ColB == <<"b">>
PlanDocA == <<"<">> \o PlanMarker \o <<"1">>
PlanDocB == <<"<">> \o PlanMarker \o <<"2">>
NearPlan == <<"S", "h", "o", "w", "P", "l", "a", "n">>

RowInt(n) == MkRow(<<ColA>>, <<Cell("I32", n)>>)
RowPair == MkRow(<<ColA, ColB>>, <<Cell("I32", 1), Cell("String", <<"x">>)>>)
RowText(t) == MkRow(<<ColA>>, <<Cell("String", t)>>)
RowNullText == MkRow(<<ColA>>, <<NullCell("String")>>)
\* The row of SELECT 1 AS a, 2 AS a: two columns of one name.
RowSameName == MkRow(<<ColA, ColA>>, <<Cell("I32", 1), Cell("I32", 2)>>)

\* What into_results() of the user statement may return.
UserResultChoices ==
    << <<>>,
       << <<>> >>,
       << <<RowInt(1), RowInt(2)>> >>,
       << <<RowInt(1)>>, <<RowPair>> >>,
       << <<RowText(PlanDocA)>> >>,
       << <<RowInt(1), RowInt(2)>>, <<RowText(PlanDocA)>> >>,
       << <<RowText(PlanDocA)>>, <<>>, <<RowText(PlanDocB), RowText(NearPlan)>> >>,
       << <<RowText(NearPlan), RowText(PlanDocA)>>, <<RowNullText>> >>,
       << <<RowSameName>> >> >>

CatalogRow(name, system_type_id, user_type_id, type_name, system_type_name) ==
    MkRow(<<<<"c", "1">>, <<"c", "2">>, <<"c", "3">>, <<"c", "4">>, <<"c", "5">>>>,
          <<Cell("String", name), Cell("U8", system_type_id),
            Cell("I32", user_type_id), Cell("String", type_name),
            Cell("String", system_type_name)>>)

TxtInt == <<"i", "n", "t">>
TxtVarchar == <<"v", "a", "r", "c", "h", "a", "r">>
TxtDate == <<"d", "a", "t", "e">>

\* What into_results() of the metadata query may return.
CatalogChoices ==
    << << <<>> >>,
       << <<CatalogRow(<<"I", "d">>, 56, 56, TxtInt, TxtInt)>> >>,
       << <<CatalogRow(<<"I", "d">>, 56, 56, TxtInt, TxtInt),
            CatalogRow(<<"C", "o", "d", "e">>, 167, 257, <<"C", "T">>, TxtVarchar),
            CatalogRow(<<"E", "x">>, 40, 40, TxtDate, TxtDate)>> >> >>

\* The error texts of the adapter.
AdapterErrors ==
    << <<"connection", "reset">>,
       <<"unsupported", "column", "type", "0xF0">> >>

\* The elapsed times (1/100 ms) the clock may report.
ElapsedChoices == <<0, 1234>>

(***************************************************************************)
(* State.                                                                  *)
(***************************************************************************)
VARIABLES
    connection,   \* AppState.connection: 0 for None, else the session
    outerLock,    \* holder of the Mutex around AppState.connection, 0 if free
    clientLock,   \* per session: holder of DbConnection.client's Mutex
    showplan_xml,   \* per session: whether SHOWPLAN_XML is ON
    statistics_xml, \* per session: whether STATISTICS XML is ON
    sessions,     \* number of sessions opened so far
    calls,        \* number of commands invoked so far
    task,         \* per caller: its command in flight (pc, request, locals)
    last,         \* the command that returned last, with what it returned
    rw,           \* the rewriter applied to a statement over a fixed catalog
    dec,          \* the value decoder at work on one row
    store,        \* the document store: the two history lists
    inserts,      \* per history list: the entries set into the store so far
    hist,         \* per caller: its history command in flight
    enc,          \* the password cipher at work on one input
    profiles      \* the document store: the saved connection profiles

\* The state of the session and of the execute_query calls.
queryVars ==
    <<connection, outerLock, clientLock, showplan_xml, statistics_xml, sessions,
      calls, task, last>>

\* The state of the history commands.
histVars == <<store, inserts, hist>>

\* The state of the saved connections.
savedVars == <<enc, profiles>>

vars == <<queryVars, rw, dec, histVars, savedVars>>

Sessions == 1..MaxSessions

NoArgs == [sql |-> <<>>, plan_type |-> "None"]

\* What the rewriter got from the catalog: nothing asked, a failure (of the
\* metadata query or of the read of its results), or the result sets read.
NoCatalog == [tag |-> "NotAsked", sets |-> <<>>]
CatalogFailed == [tag |-> "Failed", sets |-> <<>>]
CatalogRead(result_sets) == [tag |-> "Read", sets |-> result_sets]
NoAcc ==
    [messages |-> <<>>, plan_xml |-> None, columns |-> <<>>, rows |-> <<>>,
     rows_affected |-> 0]

\* A caller with no command in flight.
IdleTask ==
    [pc |-> "idle", cmd |-> "none", args |-> NoArgs, sess |-> 0,
     sql |-> <<>>, catalog |-> NoCatalog, result_sets |-> <<>>,
     acc |-> NoAcc, trace |-> <<>>, connections |-> <<>>]

NoLast ==
    [proc |-> 0, cmd |-> "none", args |-> NoArgs, sess |-> 0, sql |-> <<>>,
     catalog |-> NoCatalog, result_sets |-> <<>>, trace |-> <<>>,
     result |-> [ok |-> TRUE, kind |-> "none"]]

\* AppState { connection: None }, no command in flight.
QueryInit ==
    /\ connection = 0
    /\ outerLock = 0
    /\ clientLock = [s \in Sessions |-> 0]
    /\ showplan_xml = [s \in Sessions |-> FALSE]
    /\ statistics_xml = [s \in Sessions |-> FALSE]
    /\ sessions = 0
    /\ calls = 0
    /\ task = [p \in Procs |-> IdleTask]
    /\ last = NoLast

\* No statement under the rewriter, no row under the decoder.
NoRw == [stage |-> "off", sql |-> <<>>, db |-> 0, once |-> <<>>, twice |-> <<>>]
NoDec == [stage |-> "off", row |-> 0, i |-> 0, k |-> 0, tried |-> <<>>,
          out |-> <<>>]

\* The history store before any insert, no history command in flight.
IdleHist == [pc |-> "idle", key |-> "none", entry |-> 0, history |-> <<>>]

HistInit ==
    /\ store = [queryHistory |-> <<>>, planHistory |-> <<>>]
    /\ inserts = [queryHistory |-> 0, planHistory |-> 0]
    /\ hist = [p \in Procs |-> IdleHist]

\* No input under the cipher, no profile saved.
NoEnc ==
    [stage |-> "off", kind |-> "none", password |-> <<>>, nonce |-> <<>>,
     host |-> 0, encrypted |-> <<>>, result |-> [ok |-> TRUE, v |-> <<>>]]

SavedInit ==
    /\ enc = NoEnc
    /\ profiles = <<>>

Init ==
    /\ QueryInit
    /\ rw = NoRw
    /\ dec = NoDec
    /\ HistInit
    /\ SavedInit

\* What the session commands leave alone.
auxVars == <<rw, dec, histVars, savedVars>>

serverVars == <<showplan_xml, statistics_xml>>
lockVars == <<outerLock, clientLock>>

\* Mutant: lock() that does not wait for the holder.
LockFreeNoWait(holder) == TRUE

\* A Mutex can be taken when nobody holds it.
LockFree(holder) == holder = 0

\* Err(e) / Ok(..) of a command
ErrResult(e) == [ok |-> FALSE, kind |-> "err", err |-> e]
OkText(t) == [ok |-> TRUE, kind |-> "text", text |-> t]

\* A command is invoked.
Invoke(p, cmd, a, first) ==
    /\ task[p].pc = "idle"
    /\ calls < MaxCalls
    /\ calls' = calls + 1
    /\ task' = [task EXCEPT ![p] =
                   [IdleTask EXCEPT !.pc = first, !.cmd = cmd, !.args = a]]

\* The command of p goes on to pc next.
Goto(p, next) == task' = [task EXCEPT ![p].pc = next]

\* The command of p returns r: its locals are dropped.  last keeps what the
\* command was given, what it sent, what the server answered and r.
LeaveWith(p, trace, result_sets, r) ==
    /\ task' = [task EXCEPT ![p] = IdleTask]
    /\ last' = [proc |-> p, cmd |-> task[p].cmd,
                args |-> task[p].args, sess |-> task[p].sess,
                sql |-> task[p].sql, catalog |-> task[p].catalog,
                result_sets |-> result_sets,
                trace |-> trace, result |-> r]

Leave(p, trace, r) == LeaveWith(p, trace, task[p].result_sets, r)

(***************************************************************************)
(* connect_db and disconnect_db (commands.rs), DbConnection::connect.      *)
(***************************************************************************)
\* The stored DbConnection is dropped: its session ends, and its modes with it.
CloseSession(s) ==
    IF s = 0 THEN UNCHANGED serverVars
    ELSE /\ showplan_xml' = [showplan_xml EXCEPT ![s] = FALSE]
         /\ statistics_xml' = [statistics_xml EXCEPT ![s] = FALSE]

StartConnect(p) ==
    /\ sessions < MaxSessions
    /\ Invoke(p, "connect_db", NoArgs, "cn_tcp")
    /\ UNCHANGED <<connection, lockVars, serverVars, sessions, last>>
    /\ UNCHANGED auxVars

\* TcpStream::connect(..).await
ConnectTcp(p) ==
    /\ task[p].pc = "cn_tcp"
    /\ \/ /\ Goto(p, "cn_login")
          /\ UNCHANGED last
       \/ Leave(p, <<>>, ErrResult(<<"TCP connection failed: ">>))
    /\ UNCHANGED <<connection, lockVars, serverVars, sessions, calls>>
    /\ UNCHANGED auxVars

\* Client::connect(..).await: a new session on success
ConnectLogin(p) ==
    /\ task[p].pc = "cn_login"
    /\ \/ /\ sessions < MaxSessions
          /\ sessions' = sessions + 1
          /\ task' = [task EXCEPT
                ![p].pc = IF task[p].cmd = "connect_saved" THEN "cs_save"
                          ELSE "cn_store",
                ![p].sess = sessions + 1]
          /\ UNCHANGED last
       \/ /\ Leave(p, <<>>, ErrResult(<<"SQL Server connection failed: ">>))
          /\ UNCHANGED sessions
    /\ UNCHANGED <<connection, lockVars, serverVars, calls>>
    /\ UNCHANGED auxVars

\* Mutant: the handle is assigned without waiting for the session lock.
StoreConnectionNoLock(p) ==
    /\ task[p].pc = "cn_store"
    /\ connection' = task[p].sess
    /\ CloseSession(connection)
    /\ Leave(p, <<>>, OkText("Connected to "))
    /\ UNCHANGED <<lockVars, sessions, calls>>
    /\ UNCHANGED auxVars

\* *state.connection.lock().await = Some(conn)
StoreConnection(p) ==
    /\ task[p].pc = "cn_store"
    /\ LockFree(outerLock)
    /\ connection' = task[p].sess
    /\ CloseSession(connection)
    /\ Leave(p, <<>>, OkText("Connected to "))
    /\ UNCHANGED <<lockVars, sessions, calls>>
    /\ UNCHANGED auxVars

StartDisconnect(p) ==
    /\ Invoke(p, "disconnect_db", NoArgs, "dc_lock")
    /\ UNCHANGED <<connection, lockVars, serverVars, sessions, last>>
    /\ UNCHANGED auxVars

\* Mutant: disconnect_db returns without clearing the handle.
DisconnectKeepsSession(p) ==
    /\ task[p].pc = "dc_lock"
    /\ LockFree(outerLock)
    /\ Leave(p, <<>>, OkText(""))
    /\ UNCHANGED <<connection, serverVars, lockVars, sessions, calls>>
    /\ UNCHANGED auxVars

\* *state.connection.lock().await = None
Disconnect(p) ==
    /\ task[p].pc = "dc_lock"
    /\ LockFree(outerLock)
    /\ connection' = 0
    /\ CloseSession(connection)
    /\ Leave(p, <<>>, OkText(""))
    /\ UNCHANGED <<lockVars, sessions, calls>>
    /\ UNCHANGED auxVars

(***************************************************************************)
(* execute_query (commands.rs) and DbConnection::execute_query.            *)
(***************************************************************************)
\* Where a call stands once its own SET .. ON was executed.
AfterOnPcs == {"on_res", "user", "user_res", "off", "off_res"}

\* A plan mode is on in the session of p's call that this call did not set.
ForeignMode(p) ==
    LET t == task[p]
        mine(plan_type) == t.args.plan_type = plan_type /\ t.pc \in AfterOnPcs
    IN \/ showplan_xml[t.sess] /\ ~mine("Estimated")
       \/ statistics_xml[t.sess] /\ ~mine("Actual")

\* One step of the call on its session, as the call's trace keeps it:
\* the text sent if it is the user statement, whether a plan mode set by
\* another call was on, and whether the caller held both locks.
Event(p, ev) ==
    [ev |-> ev,
     sql |-> IF ev = "user" THEN task[p].sql ELSE <<>>,
     foreign |-> ForeignMode(p),
     locked |-> outerLock = p /\ clientLock[task[p].sess] = p]

\* The command of p logs ev and goes on to pc next, keeping its locks.
Step(p, ev, next) ==
    /\ task' = [task EXCEPT ![p].pc = next,
                            ![p].trace = Append(@, Event(p, ev))]
    /\ UNCHANGED <<lockVars, last>>

\* Mutant: the guard of the session lock outlives the command.
ReturnQueryKeepsGuard(p, trace, result_sets, r) ==
    /\ LeaveWith(p, trace, result_sets, r)
    /\ UNCHANGED outerLock
    /\ clientLock' = [clientLock EXCEPT ![task[p].sess] = 0]

\* DbConnection::execute_query returns r, and the command with it: both
\* guards are dropped.
ReturnQueryWith(p, trace, result_sets, r) ==
    /\ LeaveWith(p, trace, result_sets, r)
    /\ outerLock' = 0
    /\ clientLock' = [clientLock EXCEPT ![task[p].sess] = 0]

ReturnQuery(p, trace, r) == ReturnQueryWith(p, trace, task[p].result_sets, r)

\* Mutant: the execution-time message is pushed first, when the clock starts.
QueryOkTimeFirst(a, elapsed) ==
    [ok |-> TRUE, kind |-> "query",
     columns |-> a.columns, rows |-> a.rows,
     messages |-> <<MsgTime(elapsed)>> \o a.messages,
     plan_xml |-> a.plan_xml,
     duration_ms |-> elapsed \div 100,
     rows_affected |-> a.rows_affected]

\* Ok(QueryResult {..}) with the execution-time message appended
QueryOk(a, elapsed) ==
    [ok |-> TRUE, kind |-> "query",
     columns |-> a.columns, rows |-> a.rows,
     messages |-> Append(a.messages, MsgTime(elapsed)),
     plan_xml |-> a.plan_xml,
     duration_ms |-> elapsed \div 100,
     rows_affected |-> a.rows_affected]

\* Mutant: every plan mode starts with the user statement.
FirstPcNoToggle(plan_type) == "user"

\* The first statement of a plan mode.
FirstPc(plan_type) == IF plan_type = "None" THEN "user" ELSE "on"

\* Mutant: the advisory message is pushed whenever the catalog was consulted.
AfterRewriteNoteOnLookup(t, evs, new_sql) ==
    [t EXCEPT !.sql = new_sql,
              !.acc = [NoAcc EXCEPT !.messages =
                          IF t.catalog.tag # "NotAsked" THEN <<MsgNote>>
                          ELSE <<>>],
              !.trace = @ \o evs,
              !.pc = IF t.args.plan_type = "None" THEN "user" ELSE "on"]

\* The rewriter returned new_sql: start the clock, open the messages, and
\* go to the first statement of the plan mode.
AfterRewrite(t, evs, new_sql) ==
    [t EXCEPT !.sql = new_sql,
              !.acc = [NoAcc EXCEPT !.messages =
                          IF new_sql # t.args.sql THEN <<MsgNote>> ELSE <<>>],
              !.trace = @ \o evs,
              !.pc = FirstPc(t.args.plan_type)]

StartExecute(p, env) ==
    /\ \E i \in 1..Len(env.sqls), pt \in PlanTypes :
          Invoke(p, "execute_query", [sql |-> env.sqls[i], plan_type |-> pt],
                 "eq_lock")
    /\ UNCHANGED <<connection, lockVars, serverVars, sessions, last>>
    /\ UNCHANGED auxVars

\* let lock = state.connection.lock().await; lock.as_ref().ok_or(..)?
LockConnection(p) ==
    /\ task[p].pc = "eq_lock"
    /\ LockFree(outerLock)
    /\ IF connection = 0
       THEN /\ Leave(p, <<>>, ErrResult(<<"Not connected to database">>))
            /\ UNCHANGED outerLock
       ELSE /\ outerLock' = p
            /\ task' = [task EXCEPT ![p].pc = "cl_lock",
                                    ![p].sess = connection]
            /\ UNCHANGED last
    /\ UNCHANGED <<connection, clientLock, serverVars, sessions, calls>>
    /\ UNCHANGED auxVars

\* let mut client = self.client.lock().await; then the rewriter up to its
\* first statement
LockClient(p) ==
    /\ task[p].pc = "cl_lock"
    /\ LockFree(clientLock[task[p].sess])
    /\ clientLock' = [clientLock EXCEPT ![task[p].sess] = p]
    /\ task' = [task EXCEPT ![p] =
                   IF NeedsCatalog(@.args.sql) THEN [@ EXCEPT !.pc = "rw_debug"]
                   ELSE AfterRewrite(@, <<>>, @.args.sql)]
    /\ UNCHANGED <<connection, outerLock, serverVars, sessions, calls, last>>
    /\ UNCHANGED auxVars

\* client.simple_query(&debug_query).await
RwDebugQuery(p) ==
    /\ task[p].pc = "rw_debug"
    /\ \/ Step(p, "debug", "rw_debug_res")
       \/ Step(p, "debug", "rw_meta")
    /\ UNCHANGED <<connection, serverVars, sessions, calls>>
    /\ UNCHANGED auxVars

\* stream.into_results().await of the debug query: only printed
RwDebugResults(p) ==
    /\ task[p].pc = "rw_debug_res"
    /\ Goto(p, "rw_meta")
    /\ UNCHANGED <<connection, lockVars, serverVars, sessions, calls, last>>
    /\ UNCHANGED auxVars

\* client.simple_query(&metadata_query).await
RwMetadataQuery(p) ==
    /\ task[p].pc = "rw_meta"
    /\ \/ Step(p, "meta", "rw_meta_res")
       \/ /\ task' = [task EXCEPT ![p] =
                         AfterRewrite([@ EXCEPT !.catalog = CatalogFailed],
                                      <<Event(p, "meta")>>, @.args.sql)]
          /\ UNCHANGED <<lockVars, last>>
    /\ UNCHANGED <<connection, serverVars, sessions, calls>>
    /\ UNCHANGED auxVars

\* stream.into_results().await of the metadata query, and the rebuild
RwMetadataResults(p, env) ==
    /\ task[p].pc = "rw_meta_res"
    /\ \/ \E i \in 1..Len(env.catalogs) :
             task' = [task EXCEPT ![p] =
                         AfterRewrite([@ EXCEPT !.catalog =
                                          CatalogRead(env.catalogs[i])],
                                      <<>>,
                                      RebuildQuery(@.args.sql, env.catalogs[i]))]
       \/ task' = [task EXCEPT ![p] =
                      AfterRewrite([@ EXCEPT !.catalog = CatalogFailed],
                                   <<>>, @.args.sql)]
    /\ UNCHANGED <<connection, lockVars, serverVars, sessions, calls, last>>
    /\ UNCHANGED auxVars

\* Mutant: Estimated counts the rows it reads, as the other modes do.
EstimatedAccCounting(a, result_sets) ==
    LET xml == EstimatedPlan(result_sets) IN
    [a EXCEPT !.plan_xml = IF xml.some THEN xml ELSE a.plan_xml,
              !.rows_affected = @ + Len(FlattenSets(result_sets))]

\* The accumulators after the user statement's result sets were read.
EstimatedAcc(a, result_sets) ==
    LET xml == EstimatedPlan(result_sets) IN
    [a EXCEPT !.plan_xml = IF xml.some THEN xml ELSE a.plan_xml]

ActualAcc(a, result_sets) ==
    LET f == ActualFold(result_sets, a.plan_xml, a.rows_affected) IN
    [a EXCEPT !.plan_xml = f.plan_xml, !.rows_affected = f.rows_affected]

NoneAcc(a, result_sets) ==
    LET f == NoneFold(result_sets, a.columns, a.rows, a.rows_affected) IN
    [a EXCEPT !.columns = f.columns, !.rows = f.rows,
              !.rows_affected = f.rows_affected,
              !.messages = Append(a.messages, MsgNone(f.rows_affected))]

\* The summary message pushed after the OFF toggle.
WithSummary(a, plan_type) ==
    [a EXCEPT !.messages =
        Append(a.messages,
               IF plan_type = "Estimated" THEN MsgEstimated
               ELSE MsgActual(a.rows_affected))]

\* The server executes SET <mode of this plan type> ON / OFF.
SetMode(p, on) ==
    IF task[p].args.plan_type = "Estimated"
    THEN /\ showplan_xml' = [showplan_xml EXCEPT ![task[p].sess] = on]
         /\ UNCHANGED statistics_xml
    ELSE /\ statistics_xml' = [statistics_xml EXCEPT ![task[p].sess] = on]
         /\ UNCHANGED showplan_xml

\* client.simple_query("SET SHOWPLAN_XML ON" / "SET STATISTICS XML ON").await
ToggleOn(p, env) ==
    /\ task[p].pc = "on"
    /\ \/ /\ Step(p, "on", "on_res")
          /\ SetMode(p, TRUE)
       \/ \E i \in 1..Len(env.errors) :
             /\ ReturnQuery(p, Append(task[p].trace, Event(p, "on")),
                            ErrResult(EnableError(task[p].args.plan_type,
                                                  env.errors[i])))
             /\ UNCHANGED serverVars
    /\ UNCHANGED <<connection, sessions, calls>>
    /\ UNCHANGED auxVars

\* .into_results().await of the ON toggle
ToggleOnResults(p, env) ==
    /\ task[p].pc = "on_res"
    /\ \/ Step(p, "on_ok", "user")
       \/ \E i \in 1..Len(env.errors) :
             ReturnQuery(p, task[p].trace, ErrResult(env.errors[i]))
    /\ UNCHANGED <<connection, serverVars, sessions, calls>>
    /\ UNCHANGED auxVars

\* client.simple_query(sql).await of the user statement
UserQuery(p, env) ==
    /\ task[p].pc = "user"
    /\ \/ Step(p, "user", "user_res")
       \/ \E i \in 1..Len(env.errors) :
             ReturnQuery(p, Append(task[p].trace, Event(p, "user")),
                         ErrResult(SubmitError(task[p].args.plan_type,
                                               env.errors[i])))
    /\ UNCHANGED <<connection, serverVars, sessions, calls>>
    /\ UNCHANGED auxVars

\* stream.into_results().await of the user statement, and the loop over the
\* result sets; in mode None the call ends here
UserResults(p, env) ==
    /\ task[p].pc = "user_res"
    /\ \/ \E i \in 1..Len(env.results) :
             CASE task[p].args.plan_type = "Estimated" ->
                    /\ task' = [task EXCEPT
                                   ![p].result_sets = env.results[i],
                                   ![p].acc = EstimatedAcc(@, env.results[i]),
                                   ![p].pc = "off"]
                    /\ UNCHANGED <<lockVars, last>>
               [] task[p].args.plan_type = "Actual" ->
                    /\ task' = [task EXCEPT
                                   ![p].result_sets = env.results[i],
                                   ![p].acc = ActualAcc(@, env.results[i]),
                                   ![p].pc = "off"]
                    /\ UNCHANGED <<lockVars, last>>
               [] task[p].args.plan_type = "None" ->
                    \E e \in 1..Len(env.elapsed) :
                       ReturnQueryWith(p, task[p].trace, env.results[i],
                                       QueryOk(NoneAcc(task[p].acc,
                                                       env.results[i]),
                                               env.elapsed[e]))
       \/ \E i \in 1..Len(env.errors) :
             ReturnQuery(p, task[p].trace,
                         ErrResult(ResultsError(task[p].args.plan_type,
                                                env.errors[i])))
    /\ UNCHANGED <<connection, serverVars, sessions, calls>>
    /\ UNCHANGED auxVars

\* client.simple_query("SET SHOWPLAN_XML OFF" / "SET STATISTICS XML OFF").await
ToggleOff(p, env) ==
    /\ task[p].pc = "off"
    /\ \/ /\ Step(p, "off", "off_res")
          /\ SetMode(p, FALSE)
       \/ \E i \in 1..Len(env.errors) :
             /\ ReturnQuery(p, Append(task[p].trace, Event(p, "off")),
                            ErrResult(DisableError(task[p].args.plan_type,
                                                   env.errors[i])))
             /\ UNCHANGED serverVars
    /\ UNCHANGED <<connection, sessions, calls>>
    /\ UNCHANGED auxVars

\* .into_results().await of the OFF toggle, the summary message and Ok(..)
ToggleOffResults(p, env) ==
    /\ task[p].pc = "off_res"
    /\ \/ \E e \in 1..Len(env.elapsed) :
             ReturnQuery(p, task[p].trace,
                         QueryOk(WithSummary(task[p].acc, task[p].args.plan_type),
                                 env.elapsed[e]))
       \/ \E i \in 1..Len(env.errors) :
             ReturnQuery(p, task[p].trace, ErrResult(env.errors[i]))
    /\ UNCHANGED <<connection, serverVars, sessions, calls>>
    /\ UNCHANGED auxVars

\* The commands of caller p, with the inputs and answers drawn from env.
Command(p, env) ==
    \/ StartConnect(p)
    \/ ConnectTcp(p)
    \/ ConnectLogin(p)
    \/ StoreConnection(p)
    \/ StartDisconnect(p)
    \/ Disconnect(p)
    \/ StartExecute(p, env)
    \/ LockConnection(p)
    \/ LockClient(p)
    \/ RwDebugQuery(p)
    \/ RwDebugResults(p)
    \/ RwMetadataQuery(p)
    \/ RwMetadataResults(p, env)
    \/ ToggleOn(p, env)
    \/ ToggleOnResults(p, env)
    \/ UserQuery(p, env)
    \/ UserResults(p, env)
    \/ ToggleOff(p, env)
    \/ ToggleOffResults(p, env)

\* Every input and answer of the model.
FullEnv ==
    [sqls |-> SqlChoices, results |-> UserResultChoices,
     catalogs |-> CatalogChoices, errors |-> AdapterErrors,
     elapsed |-> ElapsedChoices]

\* For the callers that run side by side: one answer of each kind.
SmallEnv ==
    [sqls |-> SqlChoices, results |-> <<UserResultChoices[6]>>,
     catalogs |-> <<CatalogChoices[3]>>, errors |-> <<AdapterErrors[1]>>,
     elapsed |-> <<ElapsedChoices[1]>>]

\* Concurrent callers.
Next == \E p \in Procs : Command(p, SmallEnv)

Spec == Init /\ [][Next]_vars

\* One caller, one command after the other, every input and answer.
NextSeq == Command(1, FullEnv)

SeqSpec == Init /\ [][NextSeq]_vars

(***************************************************************************)
(* rewrite_query_with_date_cast as a function of the statement and of the  *)
(* catalog's content, applied once and then again to its own output.       *)
(***************************************************************************)
\* The statements the rewriter is given, in parts: lead, head, table, tail.
RwInput ==
    [leads |-> << <<>>, <<" ">> >>,
     heads |->
       << <<"S", "E", "L", "E", "C", "T", " ", "*", " ", "F", "R", "O", "M",
            " ">>,
          <<"s", "e", "l", "e", "c", "t", "*", "f", "r", "o", "m", " ">>,
          <<"S", "E", "L", "E", "C", "T", " ", "I", "d", "*", "2", " ", "A",
            "S", " ", "x", " ", "F", "R", "O", "M", " ">>,
          <<"S", "E", "L", "E", "C", "T", " ", "I", "d", " ", "F", "R", "O",
            "M", " ">> >>,
     tables |->
       << <<"W", "i", "d", "g", "e", "t", "s">>,
          <<"w", "i", "d", "g", "e", "t", "s">>,
          <<"T", "r", "i", "p", "s">>,
          <<"N", "o", "p", "e">> >>,
     tails |->
       << <<>>,
          <<";">>,
          <<" ", "W", "H", "E", "R", "E", " ", "I", "d", " ", "=", " ", "1",
            " ", "O", "R", "D", "E", "R", " ", "B", "Y", " ", "I", "d", ";">>,
          <<" ", "W", "H", "E", "R", "E", " ", "I", "d", "*", "2", " ", ">",
            " ", "4">>,
          <<" ", "O", "R", "D", "E", "R", " ", "B", "Y", " ", "I", "d", " ">> >>]

\* The names of the catalog: tables, columns, alias types.
RwNames ==
    [Widgets |-> <<"W", "i", "d", "g", "e", "t", "s">>,
     Trips |-> <<"T", "r", "i", "p", "s">>,
     City |-> <<"C", "i", "t", "y">>,
     Id |-> <<"I", "d">>,
     Code |-> <<"C", "o", "d", "e">>,
     ExpiresOn |-> <<"E", "x", "p", "i", "r", "e", "s", "O", "n">>,
     CodeType |-> <<"C", "o", "d", "e", "T", "y", "p", "e">>,
     FromCityCode |-> <<"F", "r", "o", "m", " ", "C", "i", "t", "y", " ",
                        "C", "o", "d", "e">>,
     Founded |-> <<"F", "o", "u", "n", "d", "e", "d">>,
     Due |-> <<"D", "u", "e">>,
     DueType |-> <<"D", "u", "e", "T", "y", "p", "e">>,
     ValidFrom |-> <<"V", "a", "l", "i", "d", "F", "r", "o", "m">>]

RwStatement(l, h, t, x) ==
    RwInput.leads[l] \o RwInput.heads[h] \o RwInput.tables[t]
    \o RwInput.tails[x]

\* A table or view of the catalog: its name and its sys.columns rows in
\* column_id order.
CatalogTable(name, rows) == [name |-> name, rows |-> rows]

\* The catalogs the rewriter may face.
RwDatabases ==
    << <<CatalogTable(RwNames.Widgets,
             <<CatalogRow(RwNames.Id, 56, 56, TxtInt, TxtInt),
               CatalogRow(RwNames.Code, 167, 257, RwNames.CodeType, TxtVarchar),
               CatalogRow(RwNames.ExpiresOn, 40, 40, TxtDate, TxtDate)>>),
         CatalogTable(RwNames.Trips,
             <<CatalogRow(RwNames.Id, 56, 56, TxtInt, TxtInt),
               CatalogRow(RwNames.FromCityCode, 167, 257, RwNames.CodeType, TxtVarchar)>>),
         CatalogTable(RwNames.City,
             <<CatalogRow(RwNames.Founded, 40, 40, TxtDate, TxtDate)>>)>>,
       <<CatalogTable(RwNames.Widgets,
             <<CatalogRow(RwNames.Id, 56, 56, TxtInt, TxtInt)>>),
         CatalogTable(RwNames.Trips,
             <<CatalogRow(RwNames.Id, 56, 56, TxtInt, TxtInt),
               CatalogRow(RwNames.ValidFrom, 40, 40, TxtDate, TxtDate)>>)>>,
       <<CatalogTable(RwNames.Widgets,
             <<CatalogRow(RwNames.Due, 40, 258, RwNames.DueType, TxtDate),
               CatalogRow(RwNames.Id, 56, 56, TxtInt, TxtInt)>>)>> >>

\* The server's answer to metadata_query: the rows of the objects whose
\* name is table_name whatever the case, in one result set.
CatalogAnswer(db, table_name) ==
    LET hits == SelectSeq(db, LAMBDA e : ToLower(e.name) = ToLower(table_name))
    IN <<FlattenSets([i \in 1..Len(hits) |-> hits[i].rows])>>

\* The rewriter when the catalog answers.
rewrite_query_with_date_cast(sql, db) ==
    IF NeedsCatalog(sql)
    THEN RebuildQuery(sql, CatalogAnswer(db, TableName(sql)))
    ELSE sql

RwInit ==
    /\ QueryInit
    /\ HistInit
    /\ SavedInit
    /\ dec = NoDec
    /\ \E l \in 1..Len(RwInput.leads), h \in 1..Len(RwInput.heads),
          t \in 1..Len(RwInput.tables), x \in 1..Len(RwInput.tails),
          d \in 1..Len(RwDatabases) :
          rw = [NoRw EXCEPT !.stage = "input", !.sql = RwStatement(l, h, t, x),
                            !.db = d]

\* The statement goes through the rewriter.
RwApply ==
    /\ rw.stage = "input"
    /\ rw' = [rw EXCEPT !.stage = "once",
                        !.once = rewrite_query_with_date_cast(
                                     rw.sql, RwDatabases[rw.db])]
    /\ UNCHANGED <<queryVars, dec, histVars, savedVars>>

\* The rewriter's output goes through the rewriter again.
RwApplyAgain ==
    /\ rw.stage = "once"
    /\ rw' = [rw EXCEPT !.stage = "twice",
                        !.twice = rewrite_query_with_date_cast(
                                      rw.once, RwDatabases[rw.db])]
    /\ UNCHANGED <<queryVars, dec, histVars, savedVars>>

RwNext == RwApply \/ RwApplyAgain

RwSpec == RwInit /\ [][RwNext]_vars

(***************************************************************************)
(* extract_row_values at work on one row, one try_get at a time.           *)
(***************************************************************************)
\* A value of each wire type.
ValueOf(ty) ==
    CASE ty = "String" -> Cell(ty, <<"h", "e", "l", "l", "o">>)
      [] ty = "I32" -> Cell(ty, 42)
      [] ty = "I64" -> Cell(ty, 64000)
      [] ty = "I16" -> Cell(ty, 16)
      [] ty = "F32" -> Cell(ty, 15)
      [] ty = "F64" -> Cell(ty, 25)
      [] ty = "U8" -> Cell(ty, 255)
      [] ty = "Bit" -> Cell(ty, TRUE)
      [] ty = "DateTime" ->
            Cell(ty, [date |-> <<"2", "0", "2", "4", "-", "0", "1", "-", "0", "2">>,
                      time |-> <<"0", "3", ":", "0", "4", ":", "0", "5">>])
      [] ty = "Guid" -> Cell(ty, << <<"a", "1">>, <<"b", "2">>, <<"c", "3">> >>)
      [] ty = "Numeric" -> Cell(ty, 995)

WireTypeSeq ==
    <<"String", "I32", "I64", "I16", "F32", "F64", "U8", "Bit", "DateTime",
      "Guid", "Numeric">>

\* The cells a row may hold: of each wire type, a value and a null.
DecCells ==
    [n \in 1..(2 * Len(WireTypeSeq)) |->
        IF n <= Len(WireTypeSeq) THEN ValueOf(WireTypeSeq[n])
        ELSE NullCell(WireTypeSeq[n - Len(WireTypeSeq)])]

\* The row (42 as 32-bit integer, null, "hello", a date/time value).
ScenarioRow ==
    MkRow(<<ColA, ColB, <<"c">>, <<"d">>>>,
          <<ValueOf("I32"), NullCell("String"), ValueOf("String"),
            ValueOf("DateTime")>>)

DecInit ==
    /\ QueryInit
    /\ HistInit
    /\ SavedInit
    /\ rw = NoRw
    /\ \/ \E a, b \in 1..Len(DecCells) :
             dec = [NoDec EXCEPT !.stage = "input",
                                 !.row = MkRow(<<ColA, ColB>>,
                                               <<DecCells[a], DecCells[b]>>)]
       \/ dec = [NoDec EXCEPT !.stage = "input", !.row = ScenarioRow]

\* let columns = row.columns(); let mut values = Vec::with_capacity(..)
DecBegin ==
    /\ dec.stage = "input"
    /\ dec' = [dec EXCEPT !.stage = IF Len(dec.row.columns) = 0 THEN "done"
                                    ELSE "probing",
                          !.i = 0, !.k = 1, !.tried = <<>>, !.out = <<>>]
    /\ UNCHANGED <<queryVars, rw, histVars, savedVars>>

\* The cell i is decoded to val: values.push(val) and the next cell.
DecPush(d, tried, val) ==
    [d EXCEPT !.out = Append(@, val),
              !.tried = Append(@, tried),
              !.i = @ + 1, !.k = 1,
              !.stage = IF d.i + 1 = Len(d.row.columns) THEN "done"
                        ELSE "probing"]

\* One match row.try_get::<T, _>(i) of the nest, the k-th.
DecProbe ==
    /\ dec.stage = "probing"
    /\ LET probe == ProbeOrder[dec.k]
           r == TryGet(probe, dec.row, dec.i)
           tried == IF dec.k = 1 THEN <<probe>>
                    ELSE Append(dec.tried[Len(dec.tried)], probe)
           d == IF dec.k = 1 THEN dec
                ELSE [dec EXCEPT !.tried = SubSeq(@, 1, Len(@) - 1)]
       IN dec' =
            IF r.tag = "Some" THEN DecPush(d, tried, Project(probe, r.v))
            ELSE IF r.tag = "None" THEN DecPush(d, tried, JNull)
            ELSE IF dec.k = Len(ProbeOrder)
            THEN DecPush(d, tried,
                         JString(TxtUnsupportedOpen
                                 \o dec.row.columns[dec.i + 1]
                                 \o TxtBracketClose))
            ELSE [d EXCEPT !.k = @ + 1, !.tried = Append(@, tried)]
    /\ UNCHANGED <<queryVars, rw, histVars, savedVars>>

DecNext == DecBegin \/ DecProbe

DecSpec == DecInit /\ [][DecNext]_vars

(***************************************************************************)
(* save_query_history_entry and save_plan_history_entry (commands.rs) over *)
(* the history store (store.rs).                                           *)
(***************************************************************************)
\* history.len() > 100 / history.len() > 50
QueryHistoryCap == 100
PlanHistoryCap == 50

HistoryKeys == {"queryHistory", "planHistory"}

CapOf(key) == IF key = "queryHistory" THEN QueryHistoryCap ELSE PlanHistoryCap
MaxInsertsOf(key) ==
    IF key = "queryHistory" THEN MaxQueryInserts ELSE MaxPlanInserts

\* Mutant: the list is cut at its front, the newest entries go.
TruncateFront(history, len) ==
    IF Len(history) > len
    THEN SubSeq(history, Len(history) - len + 1, Len(history))
    ELSE history

\* Vec::truncate(len)
Truncate(history, len) ==
    IF Len(history) > len THEN SubSeq(history, 1, len) ELSE history

\* history.insert(0, entry); if history.len() > cap { history.truncate(cap) }
InsertCapped(history, entry, cap) ==
    LET inserted == <<entry>> \o history IN
    IF Len(inserted) > cap THEN Truncate(inserted, cap) ELSE inserted

\* A save command is invoked with the next entry of its list.
StartSaveHistory(p) ==
    /\ hist[p].pc = "idle"
    /\ \E key \in HistoryKeys :
          /\ inserts[key] < MaxInsertsOf(key)
          /\ hist' = [hist EXCEPT ![p] = [pc |-> "get", key |-> key,
                                          entry |-> inserts[key] + 1,
                                          history |-> <<>>]]
    /\ UNCHANGED <<queryVars, rw, dec, store, inserts, savedVars>>

\* let mut history = store::get_..._history(&app)?; the insert and the cut
GetHistory(p) ==
    /\ hist[p].pc = "get"
    /\ \/ hist' = [hist EXCEPT ![p].pc = "set",
                                ![p].history =
                                    InsertCapped(store[hist[p].key],
                                                 hist[p].entry,
                                                 CapOf(hist[p].key))]
       \/ hist' = [hist EXCEPT ![p] = IdleHist]
    /\ UNCHANGED <<queryVars, rw, dec, store, inserts, savedVars>>

\* store::save_..._history(&app, &history)?: store.set(..), store.save()
SaveHistory(p) ==
    /\ hist[p].pc = "set"
    /\ store' = [store EXCEPT ![hist[p].key] = hist[p].history]
    /\ inserts' = [inserts EXCEPT ![hist[p].key] = @ + 1]
    /\ hist' = [hist EXCEPT ![p] = IdleHist]
    /\ UNCHANGED <<queryVars, rw, dec, savedVars>>

\* One caller, one save after the other.
NextHistSeq == StartSaveHistory(1) \/ GetHistory(1) \/ SaveHistory(1)

HistSeqSpec == Init /\ [][NextHistSeq]_vars

\* A save command is invoked by one of several callers: the entries are
\* numbered in the order of invocation.
InvokeSaveHistory(p) ==
    /\ hist[p].pc = "idle"
    /\ calls < MaxCalls
    /\ calls' = calls + 1
    /\ \E key \in HistoryKeys :
          hist' = [hist EXCEPT ![p] = [pc |-> "get", key |-> key,
                                      entry |-> calls + 1,
                                      history |-> <<>>]]
    /\ UNCHANGED <<connection, lockVars, serverVars, sessions, task, last>>
    /\ UNCHANGED <<rw, dec, store, inserts, savedVars>>

\* Concurrent callers of the save commands.
NextHist ==
    \E p \in Procs : InvokeSaveHistory(p) \/ GetHistory(p) \/ SaveHistory(p)

HistSpec == Init /\ [][NextHist]_vars

(***************************************************************************)
(* encrypt_password and decrypt_password (encryption.rs).  A byte is a     *)
(* number in 0..255, a string the sequence of its Unicode scalar values;   *)
(* UTF-8 and base64 are computed.  The AEAD cipher is the crate's, seen    *)
(* through what encryption.rs relies on: the ciphertext is the plaintext   *)
(* under a keystream of key and nonce, followed by a tag of TagLen bytes   *)
(* that decrypt verifies.                                                  *)
(***************************************************************************)
\* [0u8; 12], combined.len() < 12, split_at(12)
NonceLen == 12
\* the tag Aes256Gcm appends to the ciphertext
TagLen == 16

Ok(v) == [ok |-> TRUE, v |-> v]
Err(e) == [ok |-> FALSE, v |-> e]

RECURSIVE SumSeq(_)
SumSeq(bytes) == IF bytes = <<>> THEN 0 ELSE Head(bytes) + SumSeq(Tail(bytes))

\* char::encode_utf8
Utf8Char(c) ==
    IF c < 128 THEN <<c>>
    ELSE IF c < 2048 THEN <<192 + c \div 64, 128 + (c % 64)>>
    ELSE IF c < 65536
    THEN <<224 + c \div 4096, 128 + ((c \div 64) % 64), 128 + (c % 64)>>
    ELSE <<240 + c \div 262144, 128 + ((c \div 4096) % 64),
           128 + ((c \div 64) % 64), 128 + (c % 64)>>

RECURSIVE as_bytes(_)
\* str::as_bytes: the UTF-8 encoding
as_bytes(str) ==
    IF str = <<>> THEN <<>> ELSE Utf8Char(Head(str)) \o as_bytes(Tail(str))

RECURSIVE from_utf8(_)
\* String::from_utf8: the scalar values, or an error on a malformed sequence
from_utf8(bytes) ==
    IF bytes = <<>> THEN Ok(<<>>)
    ELSE LET b == bytes[1]
             n == IF b < 128 THEN 1 ELSE IF b \in 192..223 THEN 2
                  ELSE IF b \in 224..239 THEN 3
                  ELSE IF b \in 240..247 THEN 4 ELSE 0
             cont(i) == bytes[i] - 128
             c == CASE n = 1 -> b
                    [] n = 2 -> (b - 192) * 64 + cont(2)
                    [] n = 3 -> (b - 224) * 4096 + cont(2) * 64 + cont(3)
                    [] n = 4 -> (b - 240) * 262144 + cont(2) * 4096
                                + cont(3) * 64 + cont(4)
             well_formed ==
                 /\ n # 0 /\ n <= Len(bytes)
                 /\ \A i \in 2..n : bytes[i] \in 128..191
                 /\ c \in (CASE n = 1 -> 0..127 [] n = 2 -> 128..2047
                             [] n = 3 -> (2048..65535) \ (55296..57343)
                             [] n = 4 -> 65536..1114111)
         IN IF ~well_formed THEN Err(<<"invalid utf-8 sequence">>)
            ELSE LET rest == from_utf8(SubSeq(bytes, n + 1, Len(bytes))) IN
                 IF rest.ok THEN Ok(<<c>> \o rest.v) ELSE rest

\* The alphabet of base64::engine::general_purpose::STANDARD
Base64Alphabet ==
    UpperAlpha \o LowerAlpha
    \o <<"0", "1", "2", "3", "4", "5", "6", "7", "8", "9", "+", "/">>

\* BASE64.encode: three bytes to four symbols, padded with '='
Base64Encode(bytes) ==
    LET n == Len(bytes)
        at(i) == IF i <= n THEN bytes[i] ELSE 0
        sym(v) == Base64Alphabet[v + 1]
    IN [j \in 1..(4 * ((n + 2) \div 3)) |->
          LET g == (j - 1) \div 4
              q == (j - 1) % 4
              b0 == at(3 * g + 1)
              b1 == at(3 * g + 2)
              b2 == at(3 * g + 3)
          IN CASE q = 0 -> sym(b0 \div 4)
               [] q = 1 -> sym((b0 % 4) * 16 + b1 \div 16)
               [] q = 2 -> IF 3 * g + 2 > n THEN "="
                           ELSE sym((b1 % 16) * 4 + b2 \div 64)
               [] q = 3 -> IF 3 * g + 3 > n THEN "=" ELSE sym(b2 % 64)]

\* BASE64.decode: canonical padded input only
Base64Decode(text) ==
    LET n == Len(text)
        pad == IF n >= 2 /\ text[n] = "=" /\ text[n - 1] = "=" THEN 2
               ELSE IF n >= 1 /\ text[n] = "=" THEN 1 ELSE 0
        val(i) == IF i > n - pad THEN 0
                  ELSE (CHOOSE v \in 1..64 : Base64Alphabet[v] = text[i]) - 1
        symbols_ok ==
            \A i \in 1..(n - pad) : \E v \in 1..64 : Base64Alphabet[v] = text[i]
        canonical ==
            /\ pad = 1 => val(n - 1) % 4 = 0
            /\ pad = 2 => val(n - 2) % 16 = 0
    IN IF n % 4 # 0 THEN Err(<<"Invalid padding">>)
       ELSE IF ~symbols_ok THEN Err(<<"Invalid symbol">>)
       ELSE IF ~canonical THEN Err(<<"Invalid last symbol">>)
       ELSE Ok([k \in 1..(3 * (n \div 4) - pad) |->
                  LET g == (k - 1) \div 3
                      r == (k - 1) % 3
                      s0 == val(4 * g + 1)
                      s1 == val(4 * g + 2)
                      s2 == val(4 * g + 3)
                      s3 == val(4 * g + 4)
                  IN CASE r = 0 -> s0 * 4 + s1 \div 16
                       [] r = 1 -> (s1 % 16) * 16 + s2 \div 4
                       [] r = 2 -> (s2 % 4) * 64 + s3])

\* The machines the application may run on: host name and user name.
Hosts ==
    << [hostname |-> <<100, 101, 118>>, username |-> <<97, 110, 110>>],
       [hostname |-> <<>>, username |-> <<98, 111, 98>>] >>

\* derive_key: the 32-byte digest of "SqlPlanForDummies:<host>:<user>"
derive_key(host) ==
    LET material == as_bytes(<<83, 113, 108, 58>>) \o as_bytes(host.hostname)
                    \o <<58>> \o as_bytes(host.username)
    IN [j \in 1..32 |-> (SumSeq(material) * j + Len(material) + 7 * j) % 256]

\* The keystream byte of position i under key and nonce.
Keystream(key, nonce, i) ==
    (key[((i - 1) % 32) + 1] + 3 * nonce[((i - 1) % NonceLen) + 1] + 11 * i) % 256

\* The tag over key, nonce and ciphertext.
AeadTag(key, nonce, ct) ==
    [j \in 1..TagLen |->
        (key[j] + j * (SumSeq(nonce) + 5 * SumSeq(ct) + Len(ct) + 1)) % 256]

\* cipher.encrypt(nonce, plaintext): ciphertext then tag
AeadEncrypt(key, nonce, plaintext) ==
    LET ct == [i \in 1..Len(plaintext) |->
                  (plaintext[i] + Keystream(key, nonce, i)) % 256]
    IN ct \o AeadTag(key, nonce, ct)

\* cipher.decrypt(nonce, ciphertext): the plaintext if the tag is there and
\* matches
AeadDecrypt(key, nonce, data) ==
    IF Len(data) < TagLen THEN Err(<<"aead::Error">>)
    ELSE LET ct == SubSeq(data, 1, Len(data) - TagLen)
             tag == SubSeq(data, Len(data) - TagLen + 1, Len(data))
         IN IF tag # AeadTag(key, nonce, ct) THEN Err(<<"aead::Error">>)
            ELSE Ok([i \in 1..Len(ct) |->
                       (ct[i] + 256 - Keystream(key, nonce, i)) % 256])

\* Mutant: only the ciphertext is encoded, the nonce is not kept.
EncryptNonceDropped(password, nonce_bytes, host) ==
    Ok(Base64Encode(AeadEncrypt(derive_key(host), nonce_bytes,
                                as_bytes(password))))

\* encrypt_password, nonce_bytes being what thread_rng() filled in
encrypt_password(password, nonce_bytes, host) ==
    LET key == derive_key(host)
        ciphertext == AeadEncrypt(key, nonce_bytes, as_bytes(password))
        combined == nonce_bytes \o ciphertext
    IN Ok(Base64Encode(combined))

decrypt_password(encrypted, host) ==
    LET key == derive_key(host)
        combined == Base64Decode(encrypted)
    IN IF ~combined.ok THEN combined
       ELSE IF Len(combined.v) < NonceLen
       THEN Err(<<"Invalid encrypted data">>)
       ELSE LET nonce_bytes == SubSeq(combined.v, 1, NonceLen)
                ciphertext == SubSeq(combined.v, NonceLen + 1, Len(combined.v))
                plaintext == AeadDecrypt(key, nonce_bytes, ciphertext)
            IN IF ~plaintext.ok THEN plaintext ELSE from_utf8(plaintext.v)

\* The passwords: empty, ASCII, the test's non-ASCII one, mixed.
Passwords ==
    << <<>>, <<97>>, <<112, 64, 115, 115, 119, 48, 114, 100, 33>>,
       <<12497, 12473, 12527, 12540, 12489, 128272>>,
       <<233, 32, 8364, 128272, 122>> >>

\* The nonces the generator may produce.
Nonces ==
    << [i \in 1..NonceLen |-> 0], [i \in 1..NonceLen |-> 255],
       [i \in 1..NonceLen |-> (i * 53 + 9) % 256],
       [i \in 1..NonceLen |-> (i * i * 7 + 200) % 256] >>

\* The byte strings a stored value may decode to, by length.
StoredBytes(n, seed) == [i \in 1..n |-> (i * seed + n) % 256]

MaxStoredLen == 30

EncInit ==
    /\ QueryInit
    /\ HistInit
    /\ rw = NoRw
    /\ dec = NoDec
    /\ profiles = <<>>
    /\ \/ \E s \in 1..Len(Passwords), n \in 1..Len(Nonces), h \in 1..Len(Hosts) :
             enc = [NoEnc EXCEPT !.stage = "input", !.kind = "password",
                                 !.password = Passwords[s],
                                 !.nonce = Nonces[n], !.host = h]
       \/ \E n \in 0..MaxStoredLen, seed \in {1, 37}, h \in 1..Len(Hosts) :
             enc = [NoEnc EXCEPT !.stage = "encrypted", !.kind = "stored",
                                 !.host = h,
                                 !.encrypted =
                                     Base64Encode(StoredBytes(n, seed))]

\* encrypt_password(&request.password)?
EncEncrypt ==
    /\ enc.stage = "input"
    /\ enc' = [enc EXCEPT !.stage = "encrypted",
                          !.encrypted =
                              encrypt_password(enc.password, enc.nonce,
                                               Hosts[enc.host]).v]
    /\ UNCHANGED <<queryVars, rw, dec, histVars, profiles>>

\* decrypt_password(&conn_config.encrypted_password)
EncDecrypt ==
    /\ enc.stage = "encrypted"
    /\ enc' = [enc EXCEPT !.stage = "decrypted",
                          !.result = decrypt_password(enc.encrypted,
                                                      Hosts[enc.host])]
    /\ UNCHANGED <<queryVars, rw, dec, histVars, profiles>>

EncNext == EncEncrypt \/ EncDecrypt

EncSpec == EncInit /\ [][EncNext]_vars

(***************************************************************************)
(* save_connection, delete_connection and connect_saved (commands.rs) over *)
(* the profile list of the document store (store.rs).  Of a profile the    *)
(* model keeps the id, the encrypted password and last_used; the time is   *)
(* the number of commands invoked so far.                                  *)
(***************************************************************************)
\* The machine the application runs on.
ThisHost == Hosts[1]

ConnectionConfig(id, encrypted_password, last_used) ==
    [id |-> id, encrypted_password |-> encrypted_password,
     last_used |-> last_used]

\* The profiles a run may find in connections.json: one saved on this
\* machine, one whose password was encrypted under another key.
StoredConnections ==
    <<ConnectionConfig(101, encrypt_password(Passwords[2], Nonces[3],
                                             Hosts[1]).v, 0),
      ConnectionConfig(102, encrypt_password(Passwords[2], Nonces[3],
                                             Hosts[2]).v, 0)>>

\* The ids a caller may name: those stored, and one that is not.
KnownIds == {profiles[i].id : i \in 1..Len(profiles)} \cup {0}

\* connections.iter_mut().find(|c| c.id == id): the first index, 0 for None
FindConnection(connections, id) ==
    LET hits == {i \in 1..Len(connections) : connections[i].id = id} IN
    IF hits = {} THEN 0 ELSE CHOOSE i \in hits : \A j \in hits : i <= j

\* connections.retain(|c| c.id != id)
Retain(connections, id) == SelectSeq(connections, LAMBDA c : c.id # id)

StartSaveConnection(p) ==
    /\ Invoke(p, "save_connection", [id |-> calls + 1], "sv_get")
    /\ UNCHANGED <<connection, lockVars, serverVars, sessions, last>>
    /\ UNCHANGED auxVars

\* encrypt_password(..)?; the new profile; store::get_connections(&app)? and
\* connections.push(config.clone())
SaveConnectionGet(p) ==
    /\ task[p].pc = "sv_get"
    /\ \/ /\ task' = [task EXCEPT
                ![p].pc = "pf_set",
                ![p].connections =
                    Append(profiles,
                           ConnectionConfig(task[p].args.id,
                                            encrypt_password(Passwords[2],
                                                             Nonces[4],
                                                             ThisHost).v,
                                            calls))]
          /\ UNCHANGED last
       \/ Leave(p, <<>>, ErrResult(<<"store: ">>))
    /\ UNCHANGED <<connection, lockVars, serverVars, sessions, calls>>
    /\ UNCHANGED auxVars

StartDeleteConnection(p) ==
    /\ \E id \in KnownIds :
          Invoke(p, "delete_connection", [id |-> id], "dl_get")
    /\ UNCHANGED <<connection, lockVars, serverVars, sessions, last>>
    /\ UNCHANGED auxVars

\* store::get_connections(&app)? and connections.retain(|c| c.id != id)
DeleteConnectionGet(p) ==
    /\ task[p].pc = "dl_get"
    /\ \/ /\ task' = [task EXCEPT
                ![p].pc = "pf_set",
                ![p].connections = Retain(profiles, task[p].args.id)]
          /\ UNCHANGED last
       \/ Leave(p, <<>>, ErrResult(<<"store: ">>))
    /\ UNCHANGED <<connection, lockVars, serverVars, sessions, calls>>
    /\ UNCHANGED auxVars

\* store::save_connections(&app, &connections)? of save_connection and
\* delete_connection: store.set(..), then store.save() which may fail
SaveConnections(p) ==
    /\ task[p].pc = "pf_set"
    /\ profiles' = task[p].connections
    /\ \/ Leave(p, <<>>, OkText(""))
       \/ Leave(p, <<>>, ErrResult(<<"store: ">>))
    /\ UNCHANGED <<connection, lockVars, serverVars, sessions, calls>>
    /\ UNCHANGED <<rw, dec, histVars, enc>>

StartConnectSaved(p) ==
    /\ sessions < MaxSessions
    /\ \E id \in KnownIds : Invoke(p, "connect_saved", [id |-> id], "cs_get")
    /\ UNCHANGED <<connection, lockVars, serverVars, sessions, last>>
    /\ UNCHANGED auxVars

\* Mutant: last_used is set and saved as soon as the profile is found.
ConnectSavedGetTouching(p) ==
    /\ task[p].pc = "cs_get"
    /\ FindConnection(profiles, task[p].args.id) # 0
    /\ profiles' = [profiles EXCEPT
                       ![FindConnection(profiles, task[p].args.id)].last_used =
                           calls]
    /\ task' = [task EXCEPT ![p].pc = "cn_tcp", ![p].connections = profiles']
    /\ UNCHANGED <<connection, lockVars, serverVars, sessions, calls, last>>
    /\ UNCHANGED <<rw, dec, histVars, enc>>

\* store::get_connections(&app)?, the find and decrypt_password(..)?
ConnectSavedGet(p) ==
    /\ task[p].pc = "cs_get"
    /\ \/ LET i == FindConnection(profiles, task[p].args.id)
              password == decrypt_password(profiles[i].encrypted_password,
                                           ThisHost)
          IN IF i = 0
             THEN Leave(p, <<>>, ErrResult(<<"Connection not found">>))
             ELSE IF ~password.ok
             THEN Leave(p, <<>>, ErrResult(password.v))
             ELSE /\ task' = [task EXCEPT ![p].pc = "cn_tcp",
                                          ![p].connections = profiles]
                  /\ UNCHANGED last
       \/ Leave(p, <<>>, ErrResult(<<"store: ">>))
    /\ UNCHANGED <<connection, lockVars, serverVars, sessions, calls>>
    /\ UNCHANGED auxVars

\* conn_config.last_used = Some(Utc::now());
\* store::save_connections(&app, &connections)?
ConnectSavedSave(p) ==
    /\ task[p].pc = "cs_save"
    /\ profiles' =
          [task[p].connections EXCEPT
              ![FindConnection(task[p].connections, task[p].args.id)].last_used
                  = calls]
    /\ \/ /\ Goto(p, "cn_store")
          /\ UNCHANGED last
       \/ Leave(p, <<>>, ErrResult(<<"store: ">>))
    /\ UNCHANGED <<connection, lockVars, serverVars, sessions, calls>>
    /\ UNCHANGED <<rw, dec, histVars, enc>>

\* The profile commands of caller p.
ProfileCommand(p) ==
    \/ StartSaveConnection(p)
    \/ SaveConnectionGet(p)
    \/ StartDeleteConnection(p)
    \/ DeleteConnectionGet(p)
    \/ SaveConnections(p)
    \/ StartConnectSaved(p)
    \/ ConnectSavedGet(p)
    \/ ConnectSavedSave(p)

\* The application as started over a store that holds profiles.
AppInit ==
    /\ QueryInit
    /\ rw = NoRw
    /\ dec = NoDec
    /\ HistInit
    /\ enc = NoEnc
    /\ profiles = StoredConnections

\* Concurrent callers of the session and of the profile commands.
AppNext == \E p \in Procs : Command(p, SmallEnv) \/ ProfileCommand(p)

AppSpec == AppInit /\ [][AppNext]_vars

\* Concurrent callers of the connect, disconnect and profile commands.
ProfNext ==
    \E p \in Procs :
        \/ StartConnect(p)
        \/ ConnectTcp(p)
        \/ ConnectLogin(p)
        \/ StoreConnection(p)
        \/ StartDisconnect(p)
        \/ Disconnect(p)
        \/ ProfileCommand(p)

ProfSpec == AppInit /\ [][ProfNext]_vars

\* The command of p takes a step / returns in this step.
Moves(p) == task'[p] # task[p]
Returns(p) == task[p].pc # "idle" /\ task'[p].pc = "idle"

\* Caller p can take its next step: invoke a command, take a lock that is
\* free, or get the answer of the round trip it awaits.
Ready(p) ==
    CASE task[p].pc = "idle" -> calls < MaxCalls
      [] task[p].pc \in {"eq_lock", "cn_store", "dc_lock"} -> LockFree(outerLock)
      [] task[p].pc = "cl_lock" -> LockFree(clientLock[task[p].sess])
      [] OTHER -> TRUE

\* The runtime polls every command that can go on, and a round trip to the
\* server or to the store returns: a caller whose next step stays possible
\* takes it (weak fairness of each caller's steps, with the enabling
\* condition written out).
AppFairness ==
    \A p \in Procs : ([]<>~Ready(p)) \/ ([]<><<Moves(p)>>_vars)

AppFairSpec == AppSpec /\ AppFairness

(***************************************************************************)
(* Properties.                                                             *)
(***************************************************************************)
Has(trace, ev) == \E i \in 1..Len(trace) : trace[i].ev = ev

\* The traces of the execute_query calls in flight and of the last returned.
QueryTraces ==
    {[plan_type |-> task[p].args.plan_type, trace |-> task[p].trace] :
        p \in {q \in Procs : task[q].cmd = "execute_query"}}
    \cup (IF last.cmd = "execute_query"
          THEN {[plan_type |-> last.args.plan_type, trace |-> last.trace]}
          ELSE {})

\* The last command was an execute_query in this plan mode.
Returned(plan_type) ==
    last.cmd = "execute_query" /\ last.args.plan_type = plan_type

ReturnedOk(plan_type) == Returned(plan_type) /\ last.result.ok

\* C1: an Estimated execute_query whose SET SHOWPLAN_XML ON went through has
\* sent SET SHOWPLAN_XML OFF by the time it returns, Ok or Err.
C1_EstimatedOffBeforeReturn ==
    (Returned("Estimated") /\ Has(last.trace, "on_ok"))
        => Has(last.trace, "off")

\* C2: an Actual execute_query whose SET STATISTICS XML ON went through has
\* sent SET STATISTICS XML OFF by the time it returns, Ok or Err.
C2_ActualOffBeforeReturn ==
    (Returned("Actual") /\ Has(last.trace, "on_ok"))
        => Has(last.trace, "off")

\* C3: no call sends its catalog lookup or its user statement while a plan
\* mode that another call set is ON in the session.
C3_NoForeignToggleObserved ==
    \A q \in QueryTraces : \A i \in 1..Len(q.trace) :
        q.trace[i].ev \in {"debug", "meta", "user"} => ~q.trace[i].foreign

\* Where an execute_query stands between taking and dropping the session lock.
InQueryPcs ==
    {"cl_lock", "rw_debug", "rw_debug_res", "rw_meta", "rw_meta_res", "on",
     "on_res", "user", "user_res", "off", "off_res"}

\* C4: at most one execute_query is inside the session lock, it is the
\* lock's holder from the lock to its return, and every statement of a call,
\* from the catalog lookup to the OFF toggle, is sent while the caller holds
\* the session lock and the client lock.
C4_MutualExclusion ==
    /\ Cardinality({p \in Procs : task[p].pc \in InQueryPcs}) <= 1
    /\ \A p \in Procs :
          /\ task[p].pc \in InQueryPcs => outerLock = p
          /\ task[p].pc \in InQueryPcs \ {"cl_lock"}
                => clientLock[task[p].sess] = p
          /\ outerLock = p => task[p].pc \in InQueryPcs
    /\ \A q \in QueryTraces : \A i \in 1..Len(q.trace) : q.trace[i].locked

\* A caller queues on the lock while another caller's statement is out.
C4_Witness ==
    \E p, q \in Procs :
        /\ task[p].pc = "user_res" /\ Has(task[p].trace, "meta")
        /\ task[q].pc = "eq_lock"

\* The place of a statement in the order of a call.
Rank(ev) ==
    CASE ev = "debug" -> 1 [] ev = "meta" -> 2 [] ev = "on" -> 3
      [] ev = "on_ok" -> 4 [] ev = "user" -> 5 [] ev = "off" -> 6

\* C5: in an Estimated or Actual call the catalog lookup, the ON toggle, the
\* user statement and the OFF toggle come in this order; the user statement
\* is sent only after the ON toggle went through; and the call returns Ok only
\* after all of ON, user statement and OFF.
C5_EventOrder ==
    /\ \A q \in QueryTraces :
          q.plan_type # "None" =>
             /\ \A i, j \in 1..Len(q.trace) :
                   i < j => Rank(q.trace[i].ev) < Rank(q.trace[j].ev)
             /\ Has(q.trace, "user") => Has(q.trace, "on_ok")
             /\ Has(q.trace, "on_ok") => Has(q.trace, "on")
             /\ Has(q.trace, "off") => Has(q.trace, "user")
    /\ (last.cmd = "execute_query" /\ last.args.plan_type # "None"
        /\ last.result.ok) => Has(last.trace, "off")

\* An Estimated call with a catalog lookup has returned Ok.
C5_Witness ==
    /\ ReturnedOk("Estimated")
    /\ Has(last.trace, "meta") /\ Has(last.trace, "off")

\* C6: a successful call in mode None returns as many rows as the server's
\* result sets hold together, in the server's order, and rows_affected is
\* their number.
C6_NoneRowsAffected ==
    ReturnedOk("None") =>
        LET served == FlattenSets(last.result_sets) IN
        /\ last.result.rows_affected = Len(last.result.rows)
        /\ Len(last.result.rows) = Len(served)
        /\ \A i \in 1..Len(served) :
              last.result.rows[i] = extract_row_values(served[i])

\* A None call returned the rows of two result sets.
C6_Witness ==
    /\ ReturnedOk("None")
    /\ Len(last.result_sets) >= 2
    /\ last.result.rows_affected >= 3

\* C7: a successful call in mode Estimated returns no rows, no column names
\* and rows_affected 0, whatever the server returned.
C7_EstimatedNoRows ==
    ReturnedOk("Estimated") =>
        /\ last.result.rows = <<>>
        /\ last.result.rows_affected = 0
        /\ last.result.columns = <<>>

\* An Estimated call returned Ok although the server sent rows.
C7_Witness ==
    ReturnedOk("Estimated") /\ Len(FlattenSets(last.result_sets)) >= 2

\* C8: in every result, every row has as many cells as there are column
\* names.
C8_RowWidth ==
    (last.cmd = "execute_query" /\ last.result.ok) =>
        \A i \in 1..Len(last.result.rows) :
            Len(last.result.rows[i]) = Len(last.result.columns)

\* C9: in mode Estimated the plan document is the first cell of the first
\* row of the first result set.
C9_EstimatedFirstCell ==
    (/\ ReturnedOk("Estimated")
     /\ last.result_sets # <<>>
     /\ last.result_sets[1] # <<>>
     /\ FirstText(last.result_sets[1][1]).some)
        => last.result.plan_xml = FirstText(last.result_sets[1][1])

\* A result set whose first row's first cell is a plan document.
IsPlanSet(result_set) ==
    /\ result_set # <<>>
    /\ FirstText(result_set[1]).some
    /\ Contains(FirstText(result_set[1]).v, PlanMarker)

\* The rows of the result sets that are not plan sets.
DataRowCount(result_sets) ==
    Len(FlattenSets(SelectSeq(result_sets, LAMBDA rs : ~IsPlanSet(rs))))

\* C10: a successful call in mode Actual returns no rows and no column
\* names; rows_affected is the number of rows of the result sets that are
\* not plan documents; a plan result set is kept as the plan document and
\* not counted.
C10_ActualCounts ==
    ReturnedOk("Actual") =>
        LET plans == SelectSeq(last.result_sets, IsPlanSet) IN
        /\ last.result.rows = <<>>
        /\ last.result.columns = <<>>
        /\ last.result.rows_affected = DataRowCount(last.result_sets)
        /\ last.result.plan_xml =
              IF plans = <<>> THEN None
              ELSE FirstText(plans[Len(plans)][1])

\* An Actual call returned Ok on data rows and a plan document.
C10_Witness ==
    /\ ReturnedOk("Actual")
    /\ last.result.plan_xml.some
    /\ last.result.rows_affected = 2
    /\ Len(FlattenSets(last.result_sets)) = 3

\* A catalog row of a column stored as the date-only type, or declared with a
\* type other than its storage type.
CatalogRowNeedsCast(row) ==
    \/ row.cells[2].v = DateTypeId
    \/ row.cells[3].v # row.cells[2].v

\* The last command was an execute_query that got as far as the rewriter.
ReturnedFromSession == last.cmd = "execute_query" /\ last.sess # 0

\* The rewriter had no reason to change the statement of the last call.
NoRewriteCase ==
    \/ ~HasSelectStarFrom(last.args.sql)
    \/ last.catalog.tag = "Failed"
    \/ /\ last.catalog.tag = "Read"
       /\ \A i \in 1..Len(FlattenSets(last.catalog.sets)) :
             ~CatalogRowNeedsCast(FlattenSets(last.catalog.sets)[i])

\* C11: when the statement has not the select-star shape, or the metadata
\* query or the read of its results fails, or no catalog column needs a
\* cast, the rewriter hands back the caller's text unchanged and without an
\* error: the text the call goes on with is the caller's, every user
\* statement it sends carries exactly that text, and in mode None (no toggle
\* in between) the user statement is sent.
C11_RewriterNeverBlocks ==
    (ReturnedFromSession /\ NoRewriteCase) =>
        /\ last.sql = last.args.sql
        /\ \A i \in 1..Len(last.trace) :
              last.trace[i].ev = "user" => last.trace[i].sql = last.args.sql
        /\ last.args.plan_type = "None" => Has(last.trace, "user")

\* A select-star call whose catalog held no column to cast returned Ok.
C11_Witness ==
    /\ ReturnedFromSession /\ last.result.ok
    /\ HasSelectStarFrom(last.args.sql)
    /\ last.catalog.tag = "Read"
    /\ FlattenSets(last.catalog.sets) # <<>>
    /\ NoRewriteCase
    /\ Has(last.trace, "user")

\* The rewriter changed the statement it was given.
Rewritten == rw.stage \in {"once", "twice"} /\ rw.once # rw.sql

\* The column-list entry the rules give a catalog row: the date-only rule,
\* else the alias rule, else the bare name.
ExpectedColumn(row) ==
    LET name == row.cells[1].v
        storage == row.cells[2].v
        declared == row.cells[3].v
        storage_name == row.cells[5].v
        cast(ty) == TxtCastOpen \o name \o TxtCastAs \o ty \o TxtCastClose
                    \o name \o TxtBracketClose
    IN IF storage = DateTypeId THEN cast(TxtDatetime)
       ELSE IF declared # storage THEN cast(storage_name)
       ELSE TxtBracketOpen \o name \o TxtBracketClose

\* "SELECT <one entry per catalog row, in catalog order> FROM "
ExpectedSelectList(rows) ==
    TxtSelectSp
    \o Join([i \in 1..Len(rows) |-> ExpectedColumn(rows[i])], TxtCommaSpace)
    \o TxtSpFromSp

SqlWidgets ==
    <<"S", "E", "L", "E", "C", "T", " ", "*", " ", "F", "R", "O", "M", " ",
      "W", "i", "d", "g", "e", "t", "s">>

WidgetsRewritten ==
    <<"S", "E", "L", "E", "C", "T", " ", "[", "I", "d", "]", ",", " ", "C",
      "A", "S", "T", "(", "[", "C", "o", "d", "e", "]", " ", "A", "S", " ",
      "v", "a", "r", "c", "h", "a", "r", ")", " ", "A", "S", " ", "[", "C",
      "o", "d", "e", "]", ",", " ", "C", "A", "S", "T", "(", "[", "E", "x",
      "p", "i", "r", "e", "s", "O", "n", "]", " ", "A", "S", " ", "d", "a",
      "t", "e", "t", "i", "m", "e", ")", " ", "A", "S", " ", "[", "E", "x",
      "p", "i", "r", "e", "s", "O", "n", "]", " ", "F", "R", "O", "M", " ",
      "W", "i", "d", "g", "e", "t", "s">>

\* C12: a rewritten statement starts with SELECT, the list of the entries of
\* the table's catalog rows, each row once and in column order (date-only
\* storage cast to datetime, else an alias cast to its storage type's name,
\* else the bare name), and FROM with the table; SELECT * FROM Widgets over
\* Id, Code (alias of varchar), ExpiresOn (date) gives the stated text.
C12_ColumnList ==
    /\ Rewritten =>
          \E e \in 1..Len(RwDatabases[rw.db]) :
              LET tbl == RwDatabases[rw.db][e]
                  head == ExpectedSelectList(tbl.rows)
              IN /\ StartsWith(rw.once, head)
                 /\ Len(head) + Len(tbl.name) <= Len(rw.once)
                 /\ ToLower(SubSeq(rw.once, Len(head) + 1,
                                   Len(head) + Len(tbl.name)))
                       = ToLower(tbl.name)
    /\ (rw.stage \in {"once", "twice"} /\ rw.sql = SqlWidgets /\ rw.db = 1)
          => rw.once = WidgetsRewritten

\* SELECT * FROM Widgets was rewritten over Id, Code, ExpiresOn.
C12_Witness ==
    /\ Rewritten
    /\ rw.sql = SqlWidgets /\ rw.db = 1
    /\ rw.once = WidgetsRewritten

\* C13: a rewritten statement is SELECT, the column list, FROM and then the
\* end of the caller's statement (without the white space around it) from
\* the table name on, the table name being what follows FROM there: what
\* came after the table name is all there, once, as it was.
C13_TrailingClauseKept ==
    Rewritten =>
        LET t == Trim(rw.sql) IN
        \E n \in 1..Len(t), e \in 1..Len(RwDatabases[rw.db]) :
            LET tbl == RwDatabases[rw.db][e]
                pre == TrimEnd(SubSeq(t, 1, n - 1))
                suffix == SubSeq(t, n, Len(t))
                rest == SubSeq(suffix, Len(tbl.name) + 1, Len(suffix))
            IN /\ Len(pre) >= 4
               /\ Len(tbl.name) <= Len(suffix)
               /\ ToLower(SubSeq(pre, Len(pre) - 3, Len(pre))) = KwFrom
               /\ ToLower(SubSeq(suffix, 1, Len(tbl.name))) = ToLower(tbl.name)
               /\ rest # <<>> => rest[1] \in WhiteSpace \cup {";"}
               /\ rw.once = ExpectedSelectList(tbl.rows) \o suffix

\* A statement with WHERE, ORDER BY and a terminator was rewritten.
C13_Witness ==
    /\ Rewritten
    /\ Len(rw.sql) > Len(RwInput.tails[3])
    /\ SubSeq(rw.sql, Len(rw.sql) - Len(RwInput.tails[3]) + 1, Len(rw.sql))
          = RwInput.tails[3]
    /\ SubSeq(rw.once, Len(rw.once) - Len(RwInput.tails[3]) + 1, Len(rw.once))
          = RwInput.tails[3]

\* C14: over a fixed catalog, rewriting what the rewriter returned gives it
\* back unchanged.
C14_RewriterIdempotent ==
    rw.stage = "twice" => rw.twice = rw.once

\* Where the advisory message stands among the messages of the last result.
NotePositions ==
    {i \in 1..Len(last.result.messages) : last.result.messages[i] = MsgNote}

\* C15: a successful result carries the advisory message exactly when the
\* text the call went on with differs from the caller's, and then as its
\* first message and only once; a catalog without aliased or date-only
\* columns gives no advisory message.
C15_AdvisoryIffRewritten ==
    (last.cmd = "execute_query" /\ last.result.ok) =>
        /\ (NotePositions # {}) <=> (last.sql # last.args.sql)
        /\ NotePositions \subseteq {1}
        /\ (/\ last.catalog.tag = "Read"
            /\ \A i \in 1..Len(FlattenSets(last.catalog.sets)) :
                  ~CatalogRowNeedsCast(FlattenSets(last.catalog.sets)[i]))
              => NotePositions = {}

\* A rewritten call returned Ok with the advisory message first.
C15_Witness ==
    /\ last.cmd = "execute_query" /\ last.result.ok
    /\ last.sql # last.args.sql
    /\ Len(last.result.messages) = 3
    /\ last.result.messages[1] = MsgNote

\* The order of the probes as stated: text, 32-bit, 64-bit and 16-bit
\* integer, single and double precision float, unsigned byte, boolean,
\* date/time, unique identifier.
StatedProbeOrder ==
    <<"str", "i32", "i64", "i16", "f32", "f64", "u8", "bool", "datetime",
      "uuid">>

\* The cells of the row under the decoder that are decoded by now.
DecodedCells ==
    IF dec.stage \in {"probing", "done"} THEN 1..Len(dec.out) ELSE {}

\* C16: for every cell the probes tried are the first ones of the stated
\* order, each but the last reported a type mismatch, and the value is the
\* projection of the last one if it reported a value, the placeholder naming
\* the column if all ten mismatched; the row (42, null, "hello", date/time)
\* decodes to [42, null, "hello", "<date> <time>"].
C16_ProbeOrder ==
    /\ \A c \in DecodedCells :
          LET tried == dec.tried[c]
              n == Len(tried)
              r == TryGet(tried[n], dec.row, c - 1)
          IN /\ n \in 1..Len(StatedProbeOrder)
             /\ tried = SubSeq(StatedProbeOrder, 1, n)
             /\ \A j \in 1..(n - 1) :
                   TryGet(tried[j], dec.row, c - 1).tag = "Err"
             /\ r.tag = "Some" => dec.out[c] = Project(tried[n], r.v)
             /\ r.tag = "Err" =>
                   /\ n = Len(StatedProbeOrder)
                   /\ dec.out[c] = JString(TxtUnsupportedOpen
                                           \o dec.row.columns[c]
                                           \o TxtBracketClose)
    /\ dec.stage = "done" => Len(dec.out) = Len(dec.row.columns)
    /\ (dec.stage = "done" /\ dec.row = ScenarioRow) =>
          dec.out = <<JNumber(42), JNull, JString(<<"h", "e", "l", "l", "o">>),
                      JString(<<"2", "0", "2", "4", "-", "0", "1", "-", "0",
                                "2", " ", "0", "3", ":", "0", "4", ":", "0",
                                "5">>)>>

\* The row (42, null, "hello", date/time) was decoded.
C16_Witness ==
    /\ dec.stage = "done"
    /\ dec.row = ScenarioRow
    /\ Len(dec.out) = 4
    /\ dec.tried[1] = <<"str", "i32">>

\* C17: a null cell decodes to the null variant, at the first probe that
\* reports a null, with no probe tried after it; it never decodes to the
\* placeholder or to another value.
C17_NullShortCircuit ==
    \A c \in DecodedCells :
        LET tried == dec.tried[c]
            nulls == {j \in 1..Len(tried) :
                        TryGet(tried[j], dec.row, c - 1).tag = "None"}
        IN /\ nulls \subseteq {Len(tried)}
           /\ dec.row.cells[c].isnull =>
                 /\ dec.out[c].k = "Null"
                 /\ nulls = {Len(tried)}

\* The last execute_query returned an error.
ReturnedErr == ReturnedFromSession /\ ~last.result.ok

\* The error came from the user statement: it was sent, and the call ended
\* before any OFF toggle.
UserStatementFailed ==
    ReturnedErr /\ Has(last.trace, "user") /\ ~Has(last.trace, "off")

\* C18: an error of the user statement, raised at its submission or at the
\* read of its result sets, is returned either as the remediation message of
\* the plan mode (the adapter's text contains "column type") or as the
\* adapter's text behind the prefix "Query failed: ".
C18_UserErrorForms ==
    UserStatementFailed =>
        \E i \in 1..Len(AdapterErrors) :
            LET e == AdapterErrors[i] IN
            IF Contains(e, ColumnTypeNeedle)
            THEN last.result.err = RemediationText(last.args.plan_type) \o e
            ELSE last.result.err = <<"Query failed: ">> \o e

\* The call ended on a failed ON toggle / on a failed OFF toggle.
ToggleOnFailed ==
    ReturnedErr /\ Has(last.trace, "on") /\ ~Has(last.trace, "on_ok")
ToggleOffFailed == ReturnedErr /\ Has(last.trace, "off")

\* C19: a call that ends on a failed toggle, at its submission or at the
\* drain of its results, returns an error naming the toggle that failed
\* ("Failed to enable .." / "Failed to disable .."), also when the user
\* statement before a failed OFF toggle went through.
C19_ToggleErrorNamed ==
    /\ ToggleOnFailed =>
          \E i \in 1..Len(AdapterErrors) :
              last.result.err =
                  <<"Failed to enable ", ToggleName(last.args.plan_type), ": ">>
                  \o AdapterErrors[i]
    /\ ToggleOffFailed =>
          \E i \in 1..Len(AdapterErrors) :
              last.result.err =
                  <<"Failed to disable ", ToggleName(last.args.plan_type), ": ">>
                  \o AdapterErrors[i]

\* The n entries set so far being 1, 2, .., n: the list holds the latest
\* min(n, cap) of them, the most recent first.
LatestFirst(history, n, cap) ==
    /\ Len(history) = IF n < cap THEN n ELSE cap
    /\ \A i \in 1..Len(history) : history[i] = n - i + 1

\* C20: after n inserts the stored query history holds the latest
\* min(n, 100) entries and the stored plan history the latest min(n, 50),
\* most recent first: an insert beyond the cap evicts the oldest entry only.
C20_HistoryCapped ==
    /\ LatestFirst(store.queryHistory, inserts.queryHistory, 100)
    /\ LatestFirst(store.planHistory, inserts.planHistory, 50)

\* The 101st query entry and the 51st plan entry are in, the first are out.
C20_Witness ==
    /\ inserts.queryHistory = 101 /\ inserts.planHistory = 51
    /\ Len(store.queryHistory) = 100 /\ Len(store.planHistory) = 50
    /\ store.queryHistory[1] = 101 /\ store.queryHistory[100] = 2
    /\ store.planHistory[1] = 51 /\ store.planHistory[50] = 2

\* An execution-time message: "Execution time: <n>.<dd>ms".
IsTimeMessage(m) == Len(m) = 6 /\ m[1] = "Execution time: " /\ m[6] = "ms"

\* The summary message of a plan mode over n rows.
SummaryOf(plan_type, n) ==
    CASE plan_type = "None" -> <<"Query executed. ", n, " row(s) returned.">>
      [] plan_type = "Estimated" -> <<"Estimated execution plan generated.">>
      [] plan_type = "Actual" ->
            <<"Query executed. ", n,
              " row(s) returned with actual execution plan.">>

\* C23: a successful result of execute_query, in each of the three plan
\* modes, carries exactly one execution-time message, and it is the last
\* message: right after the mode's summary message, and after the advisory
\* message if there is one.
C23_ExecutionTimeLast ==
    (last.cmd = "execute_query" /\ last.result.ok) =>
        LET m == last.result.messages
            n == Len(m)
        IN /\ n >= 2
           /\ {i \in 1..n : IsTimeMessage(m[i])} = {n}
           /\ m[n - 1] = SummaryOf(last.args.plan_type,
                                   last.result.rows_affected)
           /\ \A i \in NotePositions : i < n - 1

\* An Actual call returned Ok with the advisory, the summary and the
\* execution-time message, in this order.
C23_Witness ==
    /\ ReturnedOk("Actual")
    /\ Len(last.result.messages) = 3
    /\ last.result.messages[1] = MsgNote
    /\ last.result.messages[2] = SummaryOf("Actual", last.result.rows_affected)
    /\ last.result.messages[3] = MsgTime(1234)

\* C24: in every tabular result (mode None) the column names are those of
\* the server's first non-empty result set, in its column order, and no name
\* occurs twice, also when the server's result set has two columns of one
\* name.
C24_ColumnNamesDistinct ==
    ReturnedOk("None") =>
        LET sets == SelectSeq(last.result_sets, LAMBDA rs : rs # <<>>)
            names == last.result.columns
        IN /\ sets # <<>> => names = sets[1][1].columns
           /\ \A i, j \in 1..Len(names) : i # j => names[i] # names[j]

\* C21: for every password, the empty and the non-ASCII ones included, and
\* every nonce, decrypt_password of what encrypt_password returned succeeds
\* and returns the password.
C21_RoundTrip ==
    (enc.stage = "decrypted" /\ enc.kind = "password") =>
        /\ enc.result.ok
        /\ enc.result.v = enc.password

\* The non-ASCII password of the tests went through both functions.
C21_Witness ==
    /\ enc.stage = "decrypted" /\ enc.kind = "password"
    /\ enc.password = <<12497, 12473, 12527, 12540, 12489, 128272>>
    /\ Len(enc.encrypted) = 4 * ((12 + 19 + 16 + 2) \div 3)
    /\ enc.result.ok

\* C22: decrypt_password of a well-formed base64 text that decodes to fewer
\* bytes than nonce and tag take together fails with "Invalid encrypted
\* data", never with another error and never with a plaintext.
C22_ShortInputInvalidData ==
    (/\ enc.stage = "decrypted" /\ enc.kind = "stored"
     /\ Base64Decode(enc.encrypted).ok
     /\ Len(Base64Decode(enc.encrypted).v) < 12 + 16) =>
        /\ ~enc.result.ok
        /\ enc.result.v = <<"Invalid encrypted data">>

\* C25: when connect_saved writes the profile list back, the list it writes
\* is the stored list with only last_used of the profile it connects to
\* changed: no profile deleted meanwhile comes back, none saved meanwhile
\* is lost.
C25_ConnectSavedTouchesOnly ==
    [][\A p \in Procs :
          (task[p].pc = "cs_save" /\ Moves(p)) =>
              /\ Len(profiles') = Len(profiles)
              /\ \A i \in 1..Len(profiles) :
                    /\ profiles'[i].id = profiles[i].id
                    /\ profiles'[i].encrypted_password
                          = profiles[i].encrypted_password
                    /\ profiles[i].id # task[p].args.id
                          => profiles'[i] = profiles[i]]_vars

\* C27: while an execute_query is in flight, from taking the session lock
\* to its return, the stored handle is the session the query started on and
\* the query holds the session lock: connect_db, connect_saved and
\* disconnect_db replace or drop the handle only before or after.
C27_SessionKeptInFlight ==
    \A p \in Procs :
        task[p].pc \in InQueryPcs =>
            /\ task[p].sess # 0
            /\ connection = task[p].sess
            /\ outerLock = p

\* A connect_saved with its new session waits for the lock while a query
\* runs on the stored one.
C27_Witness ==
    \E p, q \in Procs :
        /\ task[p].pc = "user_res"
        /\ task[q].cmd = "connect_saved" /\ task[q].pc = "cn_store"
        /\ task[q].sess # connection

ConnectCmds == {"connect_db", "connect_saved"}

\* The failures of a connection attempt: TCP, handshake or authentication,
\* unknown profile id, password decryption.
ConnectFailure(e) ==
    \/ e = <<"TCP connection failed: ">>
    \/ e = <<"SQL Server connection failed: ">>
    \/ e = <<"Connection not found">>
    \/ \E i \in 1..Len(profiles) :
          LET r == decrypt_password(profiles[i].encrypted_password, ThisHost)
          IN ~r.ok /\ e = r.v

\* C28: a connect_db or connect_saved that fails on the TCP connect, on the
\* handshake or authentication, on an unknown profile id or on the password
\* decryption leaves the stored session handle, the sessions' modes and the
\* stored profiles (last_used included) as they were: neither the failing
\* step nor any step of the command before it changes them.
C28_FailedConnectNoChange ==
    [][\A p \in Procs :
          /\ (task[p].cmd \in ConnectCmds /\ Returns(p)
              /\ ~last'.result.ok /\ ConnectFailure(last'.result.err)) =>
                 /\ connection' = connection
                 /\ profiles' = profiles
                 /\ serverVars' = serverVars
          /\ (task[p].cmd \in ConnectCmds /\ Moves(p)
              /\ task[p].pc \in {"cs_get", "cn_tcp", "cn_login"}) =>
                 /\ connection' = connection
                 /\ profiles' = profiles
                 /\ serverVars' = serverVars]_vars

\* A connect_saved failed on the handshake while a session was stored.
C28_Witness ==
    /\ last.cmd = "connect_saved" /\ ~last.result.ok
    /\ last.result.err = <<"SQL Server connection failed: ">>
    /\ connection # 0
    /\ profiles = StoredConnections

\* C29: an execute_query that finds no session stored returns "Not
\* connected to database", having sent nothing and changed nothing;
\* disconnect_db leaves no session stored, and none is stored again until a
\* connect_db or connect_saved returns Ok.
C29_NotConnected ==
    [][\A p \in Procs :
          /\ (task[p].pc = "eq_lock" /\ Moves(p) /\ connection = 0) =>
                 /\ Returns(p)
                 /\ last'.proc = p /\ last'.cmd = "execute_query"
                 /\ ~last'.result.ok
                 /\ last'.result.err = <<"Not connected to database">>
                 /\ last'.trace = <<>>
                 /\ UNCHANGED <<connection, lockVars, serverVars, sessions,
                                store, profiles>>
          /\ (task[p].cmd = "disconnect_db" /\ Returns(p)) => connection' = 0
          /\ (connection = 0 /\ connection' # 0 /\ Moves(p)) =>
                 /\ task[p].cmd \in ConnectCmds /\ Returns(p)
                 /\ last'.proc = p /\ last'.result.ok]_vars

\* After a session was opened and dropped, an execute_query returned "Not
\* connected to database".
C29_Witness ==
    /\ last.cmd = "execute_query" /\ ~last.result.ok
    /\ last.result.err = <<"Not connected to database">>
    /\ last.trace = <<>>
    /\ sessions >= 1 /\ connection = 0

\* C26: once all save commands have returned, and the inserts being fewer
\* than the cap, each stored history holds every entry a save command has
\* set: as many entries as saves completed, no entry twice.
C26_NoLostUpdate ==
    (\A p \in Procs : hist[p].pc = "idle") =>
        \A key \in HistoryKeys :
            inserts[key] < CapOf(key) =>
                /\ Len(store[key]) = inserts[key]
                /\ \A i, j \in 1..Len(store[key]) :
                      i # j => store[key][i] # store[key][j]

\* Every command has returned and both locks are free.
Quiescent ==
    /\ \A p \in Procs : task[p].pc = "idle"
    /\ outerLock = 0
    /\ \A s \in Sessions : clientLock[s] = 0

\* C30: the client lock is held only by the holder of the session lock
\* (the session lock is taken first, never the other way round), a lock is
\* held only by a command in flight, and with every round trip returning
\* the commands in flight, whatever they are, are again and again all
\* returned, with an error or not, and both locks free: no command stays
\* in flight for ever and no lock stays held.
C30_Progress ==
    /\ [](\A s \in Sessions : clientLock[s] # 0 => outerLock = clientLock[s])
    /\ [](\A p \in Procs : outerLock = p => task[p].pc \in InQueryPcs)
    /\ []<>Quiescent

\* A query returned an error after its toggle was set, a second caller
\* having queued on the session lock meanwhile, and the lock is free again.
C30_Witness ==
    /\ last.cmd = "execute_query" /\ ~last.result.ok
    /\ Has(last.trace, "on_ok")
    /\ outerLock = 0
    /\ \E q \in Procs : q # last.proc /\ task[q].pc = "eq_lock"

====
